---- MODULE Spec2Model ----
(***************************************************************************)
(* Model of src/messaging.cc (the later revision, lines 620-1347): the     *)
(* Legion messaging benchmark.  The dispatcher (dispatch_task) drives a    *)
(* stream of FETCH / POST requests through a prepare task and an execute   *)
(* task each; the four task handlers read and write the user cursors, the  *)
(* channel cursors and the message slots.                                  *)
(*                                                                         *)
(* Legion runs a task once every earlier launched task with a conflicting  *)
(* region requirement (same sub-region, one of the two writing) has        *)
(* finished; a handler runs to completion.  Region requirements are        *)
(* modelled as named shards with a read or a write mode and are used for   *)
(* this ordering only.                                                     *)
(***************************************************************************)
EXTENDS Integers, Sequences, FiniteSets, TLC

\* ------------------------------------------------------------------ bounds
\* Scaled-down program constants (src/messaging.cc:657, :659) and the
\* command line values -n, -m, -t, -r (src/messaging.cc:791-795).
CHANNELS_PER_USER == 2
MAX_RETURNED_MESSAGES == 2
user_count == 2
msg_count == 2
n_requests == 4
request_ratio == 1

\* -k: one channel more than a user follows, so that some channel is not
\* followed by some user.
channel_count == CHANNELS_PER_USER + 1

\* n_post_requests, n_fetch_requests (src/messaging.cc:840-841)
n_post_requests == n_requests \div (request_ratio + 1)
n_fetch_requests == n_post_requests * request_ratio

Users == 0 .. (user_count - 1)
Channels == 0 .. (channel_count - 1)
Slots == 0 .. (CHANNELS_PER_USER - 1)
\* Rect<2>((0,0),(channel_count,msg_count)) is inclusive: ids 0..msg_count
MessageIds == 0 .. msg_count

Min(a, b) == IF a < b THEN a ELSE b

\* ------------------------------------------------------------- data model
\* channel_id_mem[u]: the first CHANNELS_PER_USER entries of a shuffle of
\* all channel ids (distinct channels); fixed after initialisation.
channel_id_mem == [u \in Users |-> [i \in Slots |-> (u + i) % channel_count]]

\* snprintf(msg_template, user_id, channel_id): the text is determined by
\* the two numbers printed into the template.
MessageTextOf(user_id, channel_id) == <<user_id, channel_id>>
EmptyText == <<>>

FetchRequest(u) ==
    [action |-> "FETCH", user_id |-> u, channel_id |-> 0, message |-> EmptyText]
PostRequest(u, i) ==
    [action |-> "POST", user_id |-> u, channel_id |-> channel_id_mem[u][i],
     message |-> MessageTextOf(u, channel_id_mem[u][i])]

FetchRequests == {FetchRequest(u) : u \in Users}
PostRequests == {PostRequest(u, i) : u \in Users, i \in Slots}

CountOf(s, S) == Cardinality({k \in DOMAIN s : s[k] \in S})

\* The shuffled deque: n_fetch_requests FETCHes and n_post_requests POSTs.
RequestStreams ==
    {s \in [1 .. (n_fetch_requests + n_post_requests) ->
                FetchRequests \cup PostRequests] :
        /\ CountOf(s, FetchRequests) = n_fetch_requests
        /\ CountOf(s, PostRequests) = n_post_requests}

\* A message slot of the messages region; a slot nobody wrote holds no data.
UnwrittenSlot ==
    [written |-> FALSE, author_id |-> 0, timestamp |-> 0, text |-> EmptyText]
WrittenSlot(author, ts, text) ==
    [written |-> TRUE, author_id |-> author, timestamp |-> ts, text |-> text]

VARIABLES
    next_unread,     \* NEXT_UNREAD_MSG_IDS: user -> slot -> read cursor
    next_msg,        \* NEXT_MSG_ID: channel -> write cursor
    messages,        \* messages region: channel -> message id -> slot
    requests,        \* std::deque<Request> requests
    pending_reqs,    \* std::list<PendingRequest> pending_reqs
    executing_reqs,  \* std::vector<PendingRequest> executing_reqs
    time,            \* time_t time
    n_failed_fetch,
    n_failed_post,
    fetch_message_count,  \* global: sum of the num_messages of fetches
    drain_ix,        \* position of the drain loop in executing_reqs
    next_seq,        \* number of tasks launched so far (program order)
    pc,              \* dispatcher position: "start" (argument checks),
                     \* "failed" (exit(EXIT_FAILURE)), "loop", "drain", "done"
    crashed,         \* the process was aborted
    args             \* the values parsed from -n, -k, -m, -t, -r

\* The command line of the runs modelled: the bounds above.
ConfiguredArgs ==
    [user_count |-> user_count, channel_count |-> channel_count,
     msg_count |-> msg_count, n_requests |-> n_requests,
     request_ratio |-> request_ratio]

store == <<next_unread, next_msg, messages>>
dispatcher == <<requests, pending_reqs, executing_reqs, time, n_failed_fetch,
                n_failed_post, drain_ix, next_seq, pc>>
vars == <<next_unread, next_msg, messages, requests, pending_reqs,
          executing_reqs, time, n_failed_fetch, n_failed_post,
          fetch_message_count, drain_ix, next_seq, pc,
                   crashed, args>>

Init ==
    /\ next_unread = [u \in Users |-> [i \in Slots |-> 0]]
    /\ next_msg = [c \in Channels |-> 0]
    /\ messages = [c \in Channels |-> [k \in MessageIds |-> UnwrittenSlot]]
    /\ requests \in RequestStreams
    /\ pending_reqs = <<>>
    /\ executing_reqs = <<>>
    /\ time = 0
    /\ n_failed_fetch = 0
    /\ n_failed_post = 0
    /\ fetch_message_count = 0
    /\ drain_ix = 1
    /\ next_seq = 0
    /\ pc = "loop"
    /\ crashed = FALSE
    /\ args = ConfiguredArgs


\* ------------------------------------------------------- region requirements
\* A shard is a sub-region by color: one user's cursors, one channel's
\* cursor, one message slot.
UnreadShard(u) == <<"unread", u, 0>>
ChannelShard(c) == <<"chan", c, 0>>
MessageShard(c, k) == <<"msg", c, k>>

\* reads / writes: the sub-regions asked for READ_ONLY and for READ_WRITE or
\* WRITE_DISCARD; msgs: the message sub-regions in the order they were
\* added, regions[1], regions[2], ...
Regions(r, w, m) == [reads |-> r, writes |-> w, msgs |-> m]

Conflict(a, b) ==
    \/ a.writes \cap (b.reads \cup b.writes) # {}
    \/ b.writes \cap a.reads # {}

\* The ids lo, lo+1, ..., hi-1 in ascending order (for (j = lo; j < hi; j++)).
IdRange(lo, hi) == [k \in 1 .. (hi - lo) |-> lo + k - 1]

NoResult == [none |-> TRUE]
Future(kind, data, regions) ==
    [seq |-> next_seq, kind |-> kind, data |-> data, regions |-> regions,
     ready |-> FALSE, result |-> NoResult]

\* The shard key of a request: the channel of a POST, the user of a FETCH.
ShardKey(request) ==
    IF request.action = "POST"
    THEN <<"channel", request.channel_id>>
    ELSE <<"user", request.user_id>>

\* History kept in every PendingRequest: what the request has seen commit
\* on its shard key while it was in flight (prepared and not yet executed):
\* "none", "unchanged" (only successful executes that left the shard as it
\* was) or "changed".  SeenAfter is the value after a successful execute on
\* key that changed the shard (changed = TRUE) or not.
SeenAfter(entry, key, changed) ==
    IF ShardKey(entry.request) # key THEN entry.seen
    ELSE IF changed \/ entry.seen = "changed" THEN "changed"
    ELSE "unchanged"

\* pending_reqs with the history updated: the prepared entries are in flight.
PendingSeen(key, changed) ==
    [m \in DOMAIN pending_reqs |->
        IF pending_reqs[m].future.ready
        THEN [pending_reqs[m] EXCEPT
                 !.seen = SeenAfter(pending_reqs[m], key, changed)]
        ELSE pending_reqs[m]]

\* executing_reqs with the history updated (the entries not yet executed are
\* in flight) and with the result of entry k, whose task has run.
ExecutingSeen(k, result, key, changed) ==
    [m \in DOMAIN executing_reqs |->
        IF m = k
        THEN [executing_reqs[m] EXCEPT
                 !.future.ready = TRUE, !.future.result = result]
        ELSE IF ~executing_reqs[m].future.ready
        THEN [executing_reqs[m] EXCEPT
                 !.seen = SeenAfter(executing_reqs[m], key, changed)]
        ELSE executing_reqs[m]]

\* Tasks launched and not yet finished.
Unfinished ==
    {pending_reqs[k].future : k \in DOMAIN pending_reqs} \cup
    {executing_reqs[k].future : k \in DOMAIN executing_reqs}

\* Legion's dependence analysis: a task runs after every earlier launched
\* task whose region requirements conflict with its own.
CanRun(f) ==
    /\ ~crashed
    /\ ~f.ready
    /\ \A g \in Unfinished :
          (~g.ready /\ g.seq < f.seq) => ~Conflict(g.regions, f.regions)

\* ------------------------------------------------------------ prepare tasks
\* Faulty variant, used to test the properties: the write cursors are not read.
prepare_fetch_task_NoWriteCursors(data) ==
    [next_unread_msg_ids |-> next_unread[data.user_id],
     next_channel_msg_ids |-> [i \in Slots |-> 0]]

\* prepare_fetch_task: snapshot of the user's cursors and of the write
\* cursor of every followed channel.
prepare_fetch_task(data) ==
    [next_unread_msg_ids |-> next_unread[data.user_id],
     next_channel_msg_ids |->
        [i \in Slots |-> next_msg[data.watched_channel_ids[i]]]]

\* Faulty variant, used to test the properties: the cursor is not read.
prepare_post_task_Zero(data) == [next_channel_msg_id |-> 0]

\* prepare_post_task: snapshot of the channel's write cursor.
prepare_post_task(data) ==
    [next_channel_msg_id |-> next_msg[data.channel_id]]

PrepareFetchTask(k) ==
    /\ k \in DOMAIN pending_reqs
    /\ pending_reqs[k].future.kind = "PREPARE_FETCH"
    /\ CanRun(pending_reqs[k].future)
    /\ pending_reqs' =
          [pending_reqs EXCEPT
              ![k].future.ready = TRUE,
              ![k].future.result =
                  prepare_fetch_task(pending_reqs[k].future.data)]
    /\ UNCHANGED <<store, requests, executing_reqs, time, n_failed_fetch,
                   n_failed_post, fetch_message_count, drain_ix, next_seq,
                   pc, crashed, args>>

PreparePostTask(k) ==
    /\ k \in DOMAIN pending_reqs
    /\ pending_reqs[k].future.kind = "PREPARE_POST"
    /\ CanRun(pending_reqs[k].future)
    /\ pending_reqs' =
          [pending_reqs EXCEPT
              ![k].future.ready = TRUE,
              ![k].future.result =
                  prepare_post_task(pending_reqs[k].future.data)]
    /\ UNCHANGED <<store, requests, executing_reqs, time, n_failed_fetch,
                   n_failed_post, fetch_message_count, drain_ix, next_seq,
                   pc, crashed, args>>

\* ------------------------------------------------------------- execute post
\* Faulty variant, used to test the properties: the cursor check is left out.
PostIsCurrent_NoCheck(data) == TRUE

\* if (next_msg[data->channel_id] != data->next_channel_msg_id) success = false
PostIsCurrent(data) == next_msg[data.channel_id] = data.next_channel_msg_id

\* Faulty variant, used to test the properties: the message id is stored where the author belongs.
PostWrittenSlot_IdAsAuthor(data) ==
    WrittenSlot(data.message.message_id, data.message.timestamp,
                data.message.text)

\* author[msg_id] = ...; timestamp[msg_id] = ...; text[msg_id] = ...
PostWrittenSlot(data) ==
    WrittenSlot(data.message.author_id, data.message.timestamp,
                data.message.text)

\* Faulty variant, used to test the properties: the cursor is advanced by two.
PostAdvancedCursor_ByTwo(data) == next_msg[data.channel_id] + 2

\* next_msg[data->channel_id] = next_msg[data->channel_id] + 1
PostAdvancedCursor(data) == next_msg[data.channel_id] + 1

ExecutePostTask(k) ==
    /\ k \in DOMAIN executing_reqs
    /\ executing_reqs[k].future.kind = "EXECUTE_POST"
    /\ CanRun(executing_reqs[k].future)
    /\ LET data == executing_reqs[k].future.data
           success == PostIsCurrent(data)
       IN  /\ IF success
              THEN /\ messages' =
                        [messages EXCEPT
                            ![data.channel_id][data.next_channel_msg_id] =
                                PostWrittenSlot(data)]
                   /\ next_msg' =
                        [next_msg EXCEPT
                            ![data.channel_id] = PostAdvancedCursor(data)]
              ELSE UNCHANGED <<messages, next_msg>>
           /\ executing_reqs' =
                 IF success
                 THEN ExecutingSeen(k, [success |-> TRUE],
                                    ShardKey(executing_reqs[k].request), TRUE)
                 ELSE [executing_reqs EXCEPT
                          ![k].future.ready = TRUE,
                          ![k].future.result = [success |-> FALSE]]
           /\ pending_reqs' =
                 IF success
                 THEN PendingSeen(ShardKey(executing_reqs[k].request), TRUE)
                 ELSE pending_reqs
    /\ UNCHANGED <<next_unread, requests, time, n_failed_fetch,
                   n_failed_post, fetch_message_count, drain_ix, next_seq,
                   pc, crashed, args>>

\* ------------------------------------------------------------ execute fetch
\* Faulty variant, used to test the properties: the snapshot is not compared with the cursors.
FetchIsCurrent_NoCheck(data) == TRUE

\* Faulty variant, used to test the properties: only the first slot is compared.
FetchIsCurrent_FirstSlot(data) ==
    data.next_unread_msg_ids[0] = next_unread[data.user_id][0]

\* Faulty variant, used to test the properties: the write cursors are compared too.
FetchIsCurrent_AlsoWriteCursors(data) ==
    \A i \in Slots :
        /\ data.next_unread_msg_ids[i] = next_unread[data.user_id][i]
        /\ data.next_channel_msg_ids[i] = next_msg[data.watched_channel_ids[i]]

\* for (i ...) if (data->next_unread_msg_ids[i] != user_next_unread[i])
FetchIsCurrent(data) ==
    \A i \in Slots : data.next_unread_msg_ids[i] = next_unread[data.user_id][i]

\* Faulty variant, used to test the properties: the bound ignores MAX_RETURNED_MESSAGES.
MaxMsgId_NoLimit(data, i) == data.next_channel_msg_ids[i]

\* Faulty variant, used to test the properties: the bound ignores the channel's write cursor.
MaxMsgId_NoMin(data, i) ==
    data.next_unread_msg_ids[i] + MAX_RETURNED_MESSAGES

\* Faulty variant, used to test the properties: the bound reads the channel's write cursor.
MaxMsgId_AtExecute(data, i) ==
    Min(next_msg[data.watched_channel_ids[i]],
        data.next_unread_msg_ids[i] + MAX_RETURNED_MESSAGES)

\* max_msg_id = std::min(next_channel_msg_ids[i],
\*                       next_unread_msg_ids[i] + MAX_RETURNED_MESSAGES)
\* (message_id_t is 32 bits wide; the ids of the model stay far below 2^32)
MaxMsgId(data, i) ==
    Min(data.next_channel_msg_ids[i],
        data.next_unread_msg_ids[i] + MAX_RETURNED_MESSAGES)

\* The (slot, message id) pairs the two nested loops visit, in loop order.
RECURSIVE FetchReadsFrom(_, _)
FetchReadsFrom(data, i) ==
    IF i >= CHANNELS_PER_USER
    THEN <<>>
    ELSE LET ids == IdRange(data.next_unread_msg_ids[i], MaxMsgId(data, i))
         IN  [k \in DOMAIN ids |-> [slot |-> i, message_id |-> ids[k]]]
                 \o FetchReadsFrom(data, i + 1)
FetchReads(data) == FetchReadsFrom(data, 0)

\* unsigned long long index = 1; the k-th visit uses index FetchFirstIndex+k-1
FetchFirstIndex == 1
FetchIndexOf(k) == FetchFirstIndex + k - 1

\* response.num_messages = index (after the loops)
FetchNumMessages(data) == FetchIndexOf(Len(FetchReads(data)) + 1)

\* An element of MessageList: never assigned, assigned from a slot that was
\* read inside its region, or assigned from a read outside the region.
\* (state and slot are history: how the element was assigned and the
\* loop's i; a Message holds message_id, author_id, timestamp and text.)
UninitMessage ==
    [state |-> "uninit", slot |-> 0, message_id |-> 0, author_id |-> 0,
     timestamp |-> 0, text |-> EmptyText]
GarbageMessage(i, j) ==
    [state |-> "garbage", slot |-> i, message_id |-> j, author_id |-> 0,
     timestamp |-> 0, text |-> EmptyText]
ReadMessage(i, j, stored) ==
    [state |-> "read", slot |-> i, message_id |-> j,
     author_id |-> stored.author_id, timestamp |-> stored.timestamp,
     text |-> stored.text]

\* author(regions[index], AUTHOR_ID)[j] etc.: the accessor is built on the
\* sub-region the dispatcher added at position index and is indexed by j.
ReadInRegion(regions, index, j) ==
    /\ index \in DOMAIN regions.msgs
    /\ regions.msgs[index][2] = j

FetchedMessage(regions, index, i, j) ==
    IF ReadInRegion(regions, index, j)
    THEN ReadMessage(i, j, messages[regions.msgs[index][1]][j])
    ELSE GarbageMessage(i, j)

\* Positions of response.messages: Message msgs[MAX_RETURNED_MESSAGES]
ListPositions == 0 .. (MAX_RETURNED_MESSAGES - 1)

\* response.messages after the loops: position index holds the message of
\* the visit with that index, when the position is inside the array.
FetchMessageList(data, regions) ==
    LET reads == FetchReads(data)
    IN  [p \in ListPositions |->
            IF \E k \in DOMAIN reads : FetchIndexOf(k) = p
            THEN LET k == CHOOSE k \in DOMAIN reads : FetchIndexOf(k) = p
                 IN  FetchedMessage(regions, p, reads[k].slot,
                                    reads[k].message_id)
            ELSE UninitMessage]

\* Some visit writes response.messages[index] past the end of the array or
\* reads outside the sub-region of regions[index]: undefined behaviour.
FetchWritesOutOfBounds(data) ==
    \E k \in DOMAIN FetchReads(data) : FetchIndexOf(k) \notin ListPositions
FetchReadsOutOfRegion(data, regions) ==
    \E k \in DOMAIN FetchReads(data) :
        ~ReadInRegion(regions, FetchIndexOf(k), FetchReads(data)[k].message_id)
FetchUndefined(data, regions) ==
    FetchWritesOutOfBounds(data) \/ FetchReadsOutOfRegion(data, regions)

\* ExecuteFetchResponse response; is not initialised: on the failure path
\* num_messages and messages keep whatever the stack held.
UninitValues == {0, 1}
EmptyMessageList == [p \in ListPositions |-> UninitMessage]

\* Faulty variant, used to test the properties: a cursor that had advanced is reset.
FetchAdvancedCursors_Reset(data) ==
    [i \in Slots |->
        IF data.next_unread_msg_ids[i] > 0 THEN 0 ELSE MaxMsgId(data, i)]

\* user_next_unread[i] = max_msg_id; next_unread[user_id] = user_next_unread
FetchAdvancedCursors(data) == [i \in Slots |-> MaxMsgId(data, i)]

\* History only (not in ExecuteFetchResponse): the write cursors of the
\* followed channels at the moment the execute task runs.
WriteCursorsNow(data) ==
    [i \in Slots |-> next_msg[data.watched_channel_ids[i]]]

ExecuteFetchTask(k) ==
    /\ k \in DOMAIN executing_reqs
    /\ executing_reqs[k].future.kind = "EXECUTE_FETCH"
    /\ CanRun(executing_reqs[k].future)
    /\ LET data == executing_reqs[k].future.data
           regions == executing_reqs[k].future.regions
       IN  IF FetchIsCurrent(data)
           THEN /\ next_unread' =
                      [next_unread EXCEPT
                          ![data.user_id] = FetchAdvancedCursors(data)]
                /\ executing_reqs' =
                      ExecutingSeen(
                          k,
                          [success |-> TRUE,
                           num_messages |-> FetchNumMessages(data),
                           messages |-> FetchMessageList(data, regions),
                           at_execute |-> WriteCursorsNow(data)],
                          ShardKey(executing_reqs[k].request),
                          FetchAdvancedCursors(data) # next_unread[data.user_id])
                /\ pending_reqs' =
                      PendingSeen(ShardKey(executing_reqs[k].request),
                                  FetchAdvancedCursors(data) # next_unread[data.user_id])
                /\ fetch_message_count' =
                      fetch_message_count + FetchNumMessages(data)
           ELSE /\ UNCHANGED <<next_unread, pending_reqs>>
                /\ \E n \in UninitValues :
                      /\ executing_reqs' =
                            [executing_reqs EXCEPT
                                ![k].future.ready = TRUE,
                                ![k].future.result =
                                    [success |-> FALSE, num_messages |-> n,
                                     messages |-> EmptyMessageList,
                                     at_execute |-> WriteCursorsNow(data)]]
                      /\ fetch_message_count' = fetch_message_count + n
    /\ UNCHANGED <<next_msg, messages, requests, time, n_failed_fetch,
                   n_failed_post, drain_ix, next_seq, pc,
                   crashed, args>>

\* The other outcome of the undefined behaviour: the process is killed.
ExecuteFetchAbort(k) ==
    /\ k \in DOMAIN executing_reqs
    /\ executing_reqs[k].future.kind = "EXECUTE_FETCH"
    /\ CanRun(executing_reqs[k].future)
    /\ FetchIsCurrent(executing_reqs[k].future.data)
    /\ FetchUndefined(executing_reqs[k].future.data,
                      executing_reqs[k].future.regions)
    /\ crashed' = TRUE
    /\ UNCHANGED <<store, dispatcher, fetch_message_count, args>>

\* --------------------------------------------------------------- dispatcher
\* Faulty variant, used to test the properties: too few channels are accepted.
ArgumentsValid_NoChannelCheck(a) ==
    /\ ~(a.user_count = 0 \/ a.channel_count = 0 \/ a.msg_count = 0
             \/ a.n_requests = 0 \/ a.request_ratio = 0)
    /\ a.n_requests \div (a.request_ratio + 1) # 0

\* The three argument checks pass (none calls exit).
ArgumentsValid(a) ==
    /\ ~(a.user_count = 0 \/ a.channel_count = 0 \/ a.msg_count = 0
             \/ a.n_requests = 0 \/ a.request_ratio = 0)
    /\ ~(a.channel_count < CHANNELS_PER_USER)
    /\ a.n_requests \div (a.request_ratio + 1) # 0

\* Faulty variant, used to test the properties: the loop has no exit.
LoopCondition_Always == TRUE

\* while (requests.size() != 0 || pending_reqs.size() != 0)
LoopCondition == requests # <<>> \/ pending_reqs # <<>>

\* The scan walks pending_reqs from the front and stops (erase; break) at the
\* first entry whose future is ready.
ReadyPositions == {k \in DOMAIN pending_reqs : pending_reqs[k].future.ready}
\* Faulty variant, used to test the properties: the scan stops at any ready entry.
HasFirstReady_Any(k) == k \in ReadyPositions

HasFirstReady(k) == k \in ReadyPositions /\ \A m \in ReadyPositions : k <= m

\* Faulty variant, used to test the properties: the entry is not erased.
ErasePending_Keep(k) == pending_reqs

\* pending_reqs.erase(it)
ErasePending(k) ==
    [m \in 1 .. (Len(pending_reqs) - 1) |->
        IF m < k THEN pending_reqs[m] ELSE pending_reqs[m + 1]]

\* ExecuteFetchData built from the prepare response (lines 987-999)
ExecuteFetchData(request, response) ==
    [user_id |-> request.user_id,
     watched_channel_ids |-> channel_id_mem[request.user_id],
     next_unread_msg_ids |-> response.next_unread_msg_ids,
     next_channel_msg_ids |-> response.next_channel_msg_ids]

\* Region requirements 1, 2, ... of the execute fetch task: for every slot i
\* the message sub-regions (watched_channel_ids[i], j) for
\* next_unread_msg_ids[i] <= j < next_channel_msg_ids[i] (lines 1008-1021)
RECURSIVE FetchMessageRegionsFrom(_, _)
FetchMessageRegionsFrom(data, i) ==
    IF i >= CHANNELS_PER_USER
    THEN <<>>
    ELSE LET ids == IdRange(data.next_unread_msg_ids[i],
                            data.next_channel_msg_ids[i])
         IN  [k \in DOMAIN ids |-> <<data.watched_channel_ids[i], ids[k]>>]
                 \o FetchMessageRegionsFrom(data, i + 1)

ExecuteFetchRegions(data) ==
    LET msgs == FetchMessageRegionsFrom(data, 0)
    IN  Regions({MessageShard(msgs[k][1], msgs[k][2]) : k \in DOMAIN msgs},
                {UnreadShard(data.user_id)}, msgs)

\* Faulty variant, used to test the properties: a message is stamped with the
\* number of requests still to be admitted, which never grows.
PostTimestamp_Remaining == Len(requests)

\* The timestamp written into the message of a POST (line 1033)
PostTimestamp == time

\* ExecutePostData built from the prepare response (lines 1028-1040)
ExecutePostData(request, response) ==
    [channel_id |-> request.channel_id,
     next_channel_msg_id |-> response.next_channel_msg_id,
     message |-> [message_id |-> response.next_channel_msg_id,
                  author_id |-> request.user_id,
                  timestamp |-> PostTimestamp,
                  text |-> request.message]]

ExecutePostRegions(data) ==
    Regions({},
            {ChannelShard(data.channel_id),
             MessageShard(data.channel_id, data.next_channel_msg_id)},
            <<>>)

\* PrepareFetchData and the region requirements of the prepare fetch task
PrepareFetchData(request) ==
    [user_id |-> request.user_id,
     watched_channel_ids |-> channel_id_mem[request.user_id]]
PrepareFetchRegions(data) ==
    Regions({UnreadShard(data.user_id)} \cup
                {ChannelShard(data.watched_channel_ids[i]) : i \in Slots},
            {}, <<>>)

PreparePostData(request) == [channel_id |-> request.channel_id]
PreparePostRegions(data) == Regions({ChannelShard(data.channel_id)}, {}, <<>>)

\* The PendingRequest of the prepare task launched for a request (seen is
\* history, see SeenAfter).
PrepareLaunch(request, seq) ==
    LET data == IF request.action = "FETCH"
                THEN PrepareFetchData(request)
                ELSE PreparePostData(request)
    IN  [future |->
            [seq |-> seq,
             kind |-> IF request.action = "FETCH"
                      THEN "PREPARE_FETCH" ELSE "PREPARE_POST",
             data |-> data,
             regions |-> IF request.action = "FETCH"
                         THEN PrepareFetchRegions(data)
                         ELSE PreparePostRegions(data),
             ready |-> FALSE, result |-> NoResult],
         request |-> request,
         seen |-> "none"]

\* Faulty variant, used to test the properties: admission waits for pending_reqs to empty.
AdmittedPerPass_WhenIdle ==
    IF requests = <<>> \/ pending_reqs # <<>> THEN 0 ELSE 1

\* How many requests one pass of the loop takes from the stream.
AdmittedPerPass == IF requests = <<>> THEN 0 ELSE 1

\* Faulty variant, used to test the properties: the admitted request stays in the stream.
Admit_NoPop(pend, t, launched) ==
    IF AdmittedPerPass = 0
    THEN /\ pending_reqs' = pend
         /\ time' = t
         /\ next_seq' = next_seq + launched
         /\ UNCHANGED requests
    ELSE /\ pending_reqs' =
              Append(pend, PrepareLaunch(Head(requests), next_seq + launched))
         /\ requests' = requests
         /\ time' = t + 1
         /\ next_seq' = next_seq + launched + 1

\* Faulty variant, used to test the properties: the request at the back is admitted.
Admit_Back(pend, t, launched) ==
    IF AdmittedPerPass = 0
    THEN /\ pending_reqs' = pend
         /\ time' = t
         /\ next_seq' = next_seq + launched
         /\ UNCHANGED requests
    ELSE /\ pending_reqs' =
              Append(pend, PrepareLaunch(requests[Len(requests)],
                                         next_seq + launched))
         /\ requests' = SubSeq(requests, 1, Len(requests) - 1)
         /\ time' = t + 1
         /\ next_seq' = next_seq + launched + 1

\* Faulty variant, used to test the properties: admission leaves time alone.
Admit_NoTick(pend, t, launched) ==
    IF AdmittedPerPass = 0
    THEN /\ pending_reqs' = pend
         /\ time' = t
         /\ next_seq' = next_seq + launched
         /\ UNCHANGED requests
    ELSE /\ pending_reqs' =
              Append(pend, PrepareLaunch(Head(requests), next_seq + launched))
         /\ requests' = Tail(requests)
         /\ time' = t
         /\ next_seq' = next_seq + launched + 1

\* Second half of a pass of the main loop (lines 1069-1118), after the scan
\* left pending_reqs as pend, time as t and launched launched tasks:
\* if the stream is empty, continue; else launch the prepare task of
\* requests.front(), push it to pending_reqs, pop_front, time++.
Admit(pend, t, launched) ==
    IF AdmittedPerPass = 0
    THEN /\ pending_reqs' = pend
         /\ time' = t
         /\ next_seq' = next_seq + launched
         /\ UNCHANGED requests
    ELSE /\ pending_reqs' =
              Append(pend, PrepareLaunch(Head(requests), next_seq + launched))
         /\ requests' = Tail(requests)
         /\ time' = t + 1
         /\ next_seq' = next_seq + launched + 1

\* A pass whose scan finds a ready FETCH first: its execute task is launched
\* (lines 986-1026), the entry is erased and the scan stops.
PassPromoteFetch ==
    /\ pc = "loop" /\ ~crashed /\ LoopCondition
    /\ \E k \in DOMAIN pending_reqs :
          /\ HasFirstReady(k)
          /\ pending_reqs[k].request.action = "FETCH"
          /\ LET data == ExecuteFetchData(pending_reqs[k].request,
                                          pending_reqs[k].future.result)
             IN  executing_reqs' =
                    Append(executing_reqs,
                           [future |-> Future("EXECUTE_FETCH", data,
                                              ExecuteFetchRegions(data)),
                            request |-> pending_reqs[k].request,
                            seen |-> pending_reqs[k].seen])
          /\ Admit(ErasePending(k), time, 1)
    /\ UNCHANGED <<store, n_failed_fetch, n_failed_post, fetch_message_count,
                   drain_ix, pc, crashed, args>>

\* A pass whose scan finds a ready POST first (lines 1027-1062).  The message
\* sub-region (channel_id, next_channel_msg_id) must be a color of the
\* message partition for the launch to be made.
PassPromotePost ==
    /\ pc = "loop" /\ ~crashed /\ LoopCondition
    /\ \E k \in DOMAIN pending_reqs :
          /\ HasFirstReady(k)
          /\ pending_reqs[k].request.action = "POST"
          /\ pending_reqs[k].future.result.next_channel_msg_id \in MessageIds
          /\ LET data == ExecutePostData(pending_reqs[k].request,
                                         pending_reqs[k].future.result)
             IN  executing_reqs' =
                    Append(executing_reqs,
                           [future |-> Future("EXECUTE_POST", data,
                                              ExecutePostRegions(data)),
                            request |-> pending_reqs[k].request,
                            seen |-> pending_reqs[k].seen])
          /\ Admit(ErasePending(k), time + 1, 1)
    /\ UNCHANGED <<store, n_failed_fetch, n_failed_post, fetch_message_count,
                   drain_ix, pc, crashed, args>>

\* A pass whose scan finds no ready future.
PassNoneReady ==
    /\ pc = "loop" /\ ~crashed /\ LoopCondition
    /\ ReadyPositions = {}
    /\ Admit(pending_reqs, time, 0)
    /\ UNCHANGED <<store, executing_reqs, n_failed_fetch, n_failed_post,
                   fetch_message_count, drain_ix, pc, crashed, args>>

LoopExit ==
    /\ pc = "loop" /\ ~crashed /\ ~LoopCondition
    /\ pc' = "drain"
    /\ UNCHANGED <<store, requests, pending_reqs, executing_reqs, time,
                   n_failed_fetch, n_failed_post, fetch_message_count,
                   drain_ix, next_seq, crashed, args>>

\* Faulty variant, used to test the properties: every FETCH is counted as failed.
DrainFetch_CountsAll ==
    /\ pc = "drain" /\ ~crashed
    /\ drain_ix \in DOMAIN executing_reqs
    /\ executing_reqs[drain_ix].request.action = "FETCH"
    /\ executing_reqs[drain_ix].future.ready
    /\ n_failed_fetch' = n_failed_fetch + 1
    /\ drain_ix' = drain_ix + 1
    /\ UNCHANGED <<store, requests, pending_reqs, executing_reqs, time,
                   n_failed_post, fetch_message_count, next_seq, pc,
                   crashed, args>>

\* for (auto req : executing_reqs) ... get_result ... (blocks until ready)
DrainFetch ==
    /\ pc = "drain" /\ ~crashed
    /\ drain_ix \in DOMAIN executing_reqs
    /\ executing_reqs[drain_ix].request.action = "FETCH"
    /\ executing_reqs[drain_ix].future.ready
    /\ n_failed_fetch' =
          IF executing_reqs[drain_ix].future.result.success
          THEN n_failed_fetch ELSE n_failed_fetch + 1
    /\ drain_ix' = drain_ix + 1
    /\ UNCHANGED <<store, requests, pending_reqs, executing_reqs, time,
                   n_failed_post, fetch_message_count, next_seq, pc,
                   crashed, args>>

DrainPost ==
    /\ pc = "drain" /\ ~crashed
    /\ drain_ix \in DOMAIN executing_reqs
    /\ executing_reqs[drain_ix].request.action = "POST"
    /\ executing_reqs[drain_ix].future.ready
    /\ n_failed_post' =
          IF executing_reqs[drain_ix].future.result.success
          THEN n_failed_post ELSE n_failed_post + 1
    /\ drain_ix' = drain_ix + 1
    /\ UNCHANGED <<store, requests, pending_reqs, executing_reqs, time,
                   n_failed_fetch, fetch_message_count, next_seq, pc,
                   crashed, args>>

DrainDone ==
    /\ pc = "drain" /\ ~crashed
    /\ drain_ix > Len(executing_reqs)
    /\ pc' = "done"
    /\ UNCHANGED <<store, requests, pending_reqs, executing_reqs, time,
                   n_failed_fetch, n_failed_post, fetch_message_count,
                   drain_ix, next_seq, crashed, args>>

\* ------------------------------------------------------------ specification
RunPrepareFetch == \E k \in DOMAIN pending_reqs : PrepareFetchTask(k)
RunPreparePost == \E k \in DOMAIN pending_reqs : PreparePostTask(k)
RunExecuteFetch == \E k \in DOMAIN executing_reqs : ExecuteFetchTask(k)
RunExecuteFetchAbort == \E k \in DOMAIN executing_reqs : ExecuteFetchAbort(k)
RunExecutePost == \E k \in DOMAIN executing_reqs : ExecutePostTask(k)

Next ==
    \/ PassPromoteFetch
    \/ PassPromotePost
    \/ PassNoneReady
    \/ LoopExit
    \/ DrainFetch
    \/ DrainPost
    \/ DrainDone
    \/ RunPrepareFetch
    \/ RunPreparePost
    \/ RunExecuteFetch
    \/ RunExecuteFetchAbort
    \/ RunExecutePost

Spec == Init /\ [][Next]_vars

\* ------------------------------------------------------------------ claims
IsPost(k) == executing_reqs[k].future.kind = "EXECUTE_POST"
IsFetch(k) == executing_reqs[k].future.kind = "EXECUTE_FETCH"
Done(k) == executing_reqs[k].future.ready
Succeeded(k) == Done(k) /\ executing_reqs[k].future.result.success
Failed(k) == Done(k) /\ ~executing_reqs[k].future.result.success
DataOf(k) == executing_reqs[k].future.data
\* The step runs the execute task of entry k.
Runs(k) == ~executing_reqs[k].future.ready /\ executing_reqs'[k].future.ready
ResultAfter(k) == executing_reqs'[k].future.result

\* C1: OCC safety for POST.  No two execute post tasks that returned success
\* wrote the same slot (channel, message id); in particular two POSTs that
\* prepared with the same expected cursor of one channel never both succeed.
C1_OCCSafetyPost ==
    \A k1, k2 \in DOMAIN executing_reqs :
        (/\ k1 # k2
         /\ IsPost(k1) /\ IsPost(k2)
         /\ Succeeded(k1) /\ Succeeded(k2)
         /\ DataOf(k1).channel_id = DataOf(k2).channel_id)
        => DataOf(k1).next_channel_msg_id # DataOf(k2).next_channel_msg_id

\* Two POSTs to one channel prepared with the same expected cursor and both
\* executed: one succeeded, the other failed.
C1_Witness ==
    \E k1, k2 \in DOMAIN executing_reqs :
        /\ k1 # k2
        /\ IsPost(k1) /\ IsPost(k2)
        /\ DataOf(k1).channel_id = DataOf(k2).channel_id
        /\ DataOf(k1).next_channel_msg_id = DataOf(k2).next_channel_msg_id
        /\ Succeeded(k1) /\ Failed(k2)

\* C2: log contiguity.  In every state the written slots of a channel are
\* exactly the ids below its write cursor.
C2_LogContiguity ==
    \A c \in Channels :
        /\ next_msg[c] >= 0
        /\ \A m \in MessageIds : messages[c][m].written <=> m < next_msg[c]

\* A channel holds two messages.
C2_Witness == \E c \in Channels : next_msg[c] = 2 /\ messages[c][1].written

\* C3: cursor bound.  Every read cursor lies between 0 and the write cursor
\* of the channel followed in that slot.
C3_CursorBound ==
    \A u \in Users : \A i \in Slots :
        /\ 0 <= next_unread[u][i]
        /\ next_unread[u][i] <= next_msg[channel_id_mem[u][i]]

\* A fetch succeeded after a POST to a followed channel committed between its
\* prepare and its execute, and it advanced a cursor.
C3_Witness ==
    \E k \in DOMAIN executing_reqs :
        /\ IsFetch(k) /\ Succeeded(k)
        /\ \E i \in Slots :
              /\ executing_reqs[k].future.result.at_execute[i] >
                     DataOf(k).next_channel_msg_ids[i]
              /\ next_unread[DataOf(k).user_id][i] > 0

\* C4: a stale execute post task (the channel's write cursor differs from
\* the expected value) returns success = false and leaves every channel
\* cursor and every message slot as they were.
C4_StalePostNoMutation ==
    [][\A k \in DOMAIN executing_reqs :
          (/\ IsPost(k) /\ Runs(k)
           /\ next_msg[DataOf(k).channel_id] # DataOf(k).next_channel_msg_id)
          => /\ ResultAfter(k).success = FALSE
             /\ next_msg' = next_msg
             /\ messages' = messages]_vars

\* A POST that found the cursor moved has executed and failed.
C4_Witness ==
    \E k \in DOMAIN executing_reqs :
        /\ IsPost(k) /\ Failed(k)
        /\ next_msg[DataOf(k).channel_id] > DataOf(k).next_channel_msg_id

\* C5: a stale execute fetch task (some slot's read cursor differs from the
\* prepare snapshot) returns success = false and changes no read cursor.
C5_StaleFetchNoMutation ==
    [][\A k \in DOMAIN executing_reqs :
          (/\ IsFetch(k) /\ Runs(k)
           /\ \E i \in Slots :
                 next_unread[DataOf(k).user_id][i] #
                     DataOf(k).next_unread_msg_ids[i])
          => /\ ResultAfter(k).success = FALSE
             /\ next_unread' = next_unread]_vars

\* A fetch whose snapshot was overtaken in one slot only has executed and
\* failed.
C5_Witness ==
    \E k \in DOMAIN executing_reqs :
        /\ IsFetch(k) /\ Failed(k)
        /\ \E i, j \in Slots :
              /\ next_unread[DataOf(k).user_id][i] >
                     DataOf(k).next_unread_msg_ids[i]
              /\ next_unread[DataOf(k).user_id][j] =
                     DataOf(k).next_unread_msg_ids[j]

\* C6: an execute post task succeeds exactly when the channel's write cursor
\* equals the expected value; on success the slot (channel, expected) holds
\* the request's author, the timestamp the dispatcher stamped when it
\* launched the task, and the request's text, and the cursor is expected+1.
C6_PostCommit ==
    [][/\ \A k \in DOMAIN executing_reqs :
             (IsPost(k) /\ Runs(k)) =>
                LET d == DataOf(k)
                    r == executing_reqs[k].request
                IN  /\ ResultAfter(k).success <=>
                           (next_msg[d.channel_id] = d.next_channel_msg_id)
                    /\ ResultAfter(k).success =>
                          /\ messages'[d.channel_id][d.next_channel_msg_id] =
                                 [written |-> TRUE,
                                  author_id |-> r.user_id,
                                  timestamp |-> d.message.timestamp,
                                  text |-> r.message]
                          /\ next_msg'[d.channel_id] =
                                 d.next_channel_msg_id + 1
       /\ \A k \in DOMAIN executing_reqs' :
             (k \notin DOMAIN executing_reqs
                 /\ executing_reqs'[k].future.kind = "EXECUTE_POST")
             => executing_reqs'[k].future.data.message.timestamp = time]_vars

\* A POST by a user other than 0 committed as message 1 of its channel.
C6_Witness ==
    \E k \in DOMAIN executing_reqs :
        /\ IsPost(k) /\ Succeeded(k)
        /\ DataOf(k).next_channel_msg_id = 1
        /\ executing_reqs[k].request.user_id # 0
        /\ messages[DataOf(k).channel_id][1].author_id =
               executing_reqs[k].request.user_id

\* What a fetch response returns for slot i: the assigned elements of
\* response.messages that belong to the slot, in list order.
ListAsSeq(list) == [n \in 1 .. MAX_RETURNED_MESSAGES |-> list[n - 1]]
AsMessage(e) ==
    [message_id |-> e.message_id, author_id |-> e.author_id,
     timestamp |-> e.timestamp, text |-> e.text]
ReturnedFor(result, i) ==
    LET assigned == SelectSeq(ListAsSeq(result.messages),
                              LAMBDA e : e.state # "uninit" /\ e.slot = i)
    IN  [n \in DOMAIN assigned |-> AsMessage(assigned[n])]
ReturnedIdsFor(result, i) ==
    {ReturnedFor(result, i)[n].message_id : n \in DOMAIN ReturnedFor(result, i)}

\* The message stored in slot (c, m) as a Message.
StoredMessage(c, m) ==
    [message_id |-> m, author_id |-> messages[c][m].author_id,
     timestamp |-> messages[c][m].timestamp, text |-> messages[c][m].text]

\* min(writeCursorsSnapshot[i], readCursorsSnapshot[i] + MAX_RETURNED_MESSAGES)
ClaimedBound(d, i) ==
    IF d.next_channel_msg_ids[i] <
           d.next_unread_msg_ids[i] + MAX_RETURNED_MESSAGES
    THEN d.next_channel_msg_ids[i]
    ELSE d.next_unread_msg_ids[i] + MAX_RETURNED_MESSAGES

\* C7: on a successful execute fetch, for each slot i the read cursor becomes
\* min(writeCursorsSnapshot[i], readCursorsSnapshot[i] + MAX_RETURNED_MESSAGES)
\* and the messages returned for slot i are those with ids
\* readCursorsSnapshot[i] .. that bound - 1, in ascending order.
C7_FetchCommit ==
    [][\A k \in DOMAIN executing_reqs :
          (IsFetch(k) /\ Runs(k) /\ ResultAfter(k).success) =>
             LET d == DataOf(k)
             IN  \A i \in Slots :
                    /\ next_unread'[d.user_id][i] = ClaimedBound(d, i)
                    /\ ReturnedFor(ResultAfter(k), i) =
                          [n \in 1 .. (ClaimedBound(d, i) -
                                          d.next_unread_msg_ids[i]) |->
                              StoredMessage(d.watched_channel_ids[i],
                                            d.next_unread_msg_ids[i] + n - 1)]
      ]_vars

\* The cursor half of C7 alone (holds).
C7_CursorHalf ==
    [][\A k \in DOMAIN executing_reqs :
          (IsFetch(k) /\ Runs(k) /\ ResultAfter(k).success) =>
             \A i \in Slots :
                next_unread'[DataOf(k).user_id][i] = ClaimedBound(DataOf(k), i)
      ]_vars

\* The ids returned to user u for slot i by all its successful fetches.
ReturnedIds(u, i) ==
    UNION {ReturnedIdsFor(executing_reqs[k].future.result, i) :
              k \in {k \in DOMAIN executing_reqs :
                        /\ IsFetch(k) /\ Succeeded(k)
                        /\ DataOf(k).user_id = u}}

\* C8: a FETCH never skips messages and never returns more than the channel
\* had at prepare time: for every (user, slot) the ids returned by the
\* user's successful fetches are exactly the ids below the read cursor, and
\* every returned id is below the write cursor that fetch's prepare saw.
C8_NoSkip ==
    /\ \A u \in Users : \A i \in Slots :
          ReturnedIds(u, i) = 0 .. (next_unread[u][i] - 1)
    /\ \A k \in DOMAIN executing_reqs :
          (IsFetch(k) /\ Succeeded(k)) =>
             \A i \in Slots :
                \A m \in ReturnedIdsFor(executing_reqs[k].future.result, i) :
                    m < DataOf(k).next_channel_msg_ids[i]

\* C8 read on the id ranges the cursors cover instead of the ids present
\* in the responses (holds): the ranges [snapshot, bound) of a user's
\* successful fetches cover exactly the ids below the read cursor.
C8_RangesCover ==
    \A u \in Users : \A i \in Slots :
        UNION {DataOf(k).next_unread_msg_ids[i] ..
                   (ClaimedBound(DataOf(k), i) - 1) :
                  k \in {k \in DOMAIN executing_reqs :
                            /\ IsFetch(k) /\ Succeeded(k)
                            /\ DataOf(k).user_id = u}}
            = 0 .. (next_unread[u][i] - 1)

\* C9: no duplicate delivery.  Two different successful fetches of one user
\* never advance the same slot from the same cursor value, and never return
\* the same message id of a slot.
C9_NoDuplicateDelivery ==
    \A k1, k2 \in DOMAIN executing_reqs :
        (/\ k1 # k2
         /\ IsFetch(k1) /\ IsFetch(k2)
         /\ Succeeded(k1) /\ Succeeded(k2)
         /\ DataOf(k1).user_id = DataOf(k2).user_id)
        => \A i \in Slots :
              /\ (/\ ClaimedBound(DataOf(k1), i) >
                         DataOf(k1).next_unread_msg_ids[i]
                  /\ ClaimedBound(DataOf(k2), i) >
                         DataOf(k2).next_unread_msg_ids[i])
                 => DataOf(k1).next_unread_msg_ids[i] #
                        DataOf(k2).next_unread_msg_ids[i]
              /\ ReturnedIdsFor(executing_reqs[k1].future.result, i) \cap
                     ReturnedIdsFor(executing_reqs[k2].future.result, i) = {}
              /\ (DataOf(k1).next_unread_msg_ids[i] ..
                      (ClaimedBound(DataOf(k1), i) - 1)) \cap
                 (DataOf(k2).next_unread_msg_ids[i] ..
                      (ClaimedBound(DataOf(k2), i) - 1)) = {}

\* Two fetches of one user prepared from the same cursor value of a slot
\* with unread messages: one advanced the slot, the other failed.
C9_Witness ==
    \E k1, k2 \in DOMAIN executing_reqs :
        /\ k1 # k2
        /\ IsFetch(k1) /\ IsFetch(k2)
        /\ DataOf(k1).user_id = DataOf(k2).user_id
        /\ Succeeded(k1) /\ Failed(k2)
        /\ \E i \in Slots :
              /\ DataOf(k1).next_unread_msg_ids[i] =
                     DataOf(k2).next_unread_msg_ids[i]
              /\ ClaimedBound(DataOf(k1), i) >
                     DataOf(k1).next_unread_msg_ids[i]
              /\ ClaimedBound(DataOf(k2), i) >
                     DataOf(k2).next_unread_msg_ids[i]

\* C10 as stated: of two requests on one shard key that are in flight at the
\* same time only one commits, i.e. a request that saw another request
\* commit on its key while it was in flight does not commit.
C10_InFlightOriginal ==
    \A k \in DOMAIN executing_reqs :
        Succeeded(k) => executing_reqs[k].seen = "none"

\* C10 amended: a request that saw another request commit on its key and
\* change the shard while it was in flight (a POST always changes the
\* channel cursor, a FETCH changes the user's cursors when it advances one)
\* does not commit.
C10_InFlightAmended ==
    \A k \in DOMAIN executing_reqs :
        Succeeded(k) => executing_reqs[k].seen # "changed"

\* A POST and a FETCH each failed after a request on the same key committed
\* and changed the shard while they were in flight.
C10_Witness ==
    /\ \E k \in DOMAIN executing_reqs :
          IsPost(k) /\ Failed(k) /\ executing_reqs[k].seen = "changed"
    /\ \E k \in DOMAIN executing_reqs :
          IsFetch(k) /\ Failed(k) /\ executing_reqs[k].seen = "changed"

\* The POSTs to channel c that were promoted, in promotion order.
PostsTo(c) ==
    {k \in DOMAIN executing_reqs : IsPost(k) /\ DataOf(k).channel_id = c}
PostRank(c, k) == Cardinality({m \in PostsTo(c) : m < k})

\* The POSTs to channel c ran serially: every one of them has executed, and
\* none was in flight (prepared, not executed) while another POST committed
\* to the channel.
SerialPosts(c) ==
    \A k \in PostsTo(c) : Done(k) /\ executing_reqs[k].seen = "none"

\* C11: no lost updates.  When the N POSTs to a channel ran serially, all N
\* succeeded, the channel's write cursor is N, and slot n-1 holds the author,
\* stamped timestamp and text of the n-th POST, for n = 1..N; no other slot
\* is written.
C11_NoLostUpdates ==
    \A c \in Channels :
        SerialPosts(c) =>
            /\ next_msg[c] = Cardinality(PostsTo(c))
            /\ \A k \in PostsTo(c) :
                  /\ Succeeded(k)
                  /\ PostRank(c, k) \in MessageIds
                  /\ messages[c][PostRank(c, k)] =
                        WrittenSlot(executing_reqs[k].request.user_id,
                                    DataOf(k).message.timestamp,
                                    executing_reqs[k].request.message)
                  /\ \A m \in PostsTo(c) :
                        m < k => DataOf(m).message.timestamp <
                                     DataOf(k).message.timestamp
            /\ \A m \in MessageIds :
                  messages[c][m].written <=> m < Cardinality(PostsTo(c))

\* Two POSTs to one channel ran serially and the run is over.
C11_Witness ==
    \E c \in Channels :
        /\ SerialPosts(c)
        /\ Cardinality(PostsTo(c)) >= 2
        /\ pc = "done"

backlog_n_post == MAX_RETURNED_MESSAGES + 1
backlog_n_fetch == backlog_n_post * request_ratio
BacklogStreams ==
    {[k \in 1 .. (backlog_n_post + backlog_n_fetch) |->
         IF k <= backlog_n_post
         THEN PostRequest(0, 0)
         ELSE FetchRequest(f[k - backlog_n_post])] :
        f \in [1 .. backlog_n_fetch -> Users]}

InitBacklog ==
    /\ next_unread = [u \in Users |-> [i \in Slots |-> 0]]
    /\ next_msg = [c \in Channels |-> 0]
    /\ messages = [c \in Channels |-> [k \in MessageIds |-> UnwrittenSlot]]
    /\ requests \in BacklogStreams
    /\ pending_reqs = <<>>
    /\ executing_reqs = <<>>
    /\ time = 0
    /\ n_failed_fetch = 0
    /\ n_failed_post = 0
    /\ fetch_message_count = 0
    /\ drain_ix = 1
    /\ next_seq = 0
    /\ pc = "loop"
    /\ crashed = FALSE
    /\ args = ConfiguredArgs

SpecBacklog == InitBacklog /\ [][Next]_vars

\* C13: pagination.  A successful execute fetch returns at most
\* MAX_RETURNED_MESSAGES messages for each slot and advances each read cursor
\* by at most MAX_RETURNED_MESSAGES; a slot whose backlog at prepare time is
\* larger keeps its read cursor below the channel's write cursor.
C13_Pagination ==
    [][\A k \in DOMAIN executing_reqs :
          (IsFetch(k) /\ Runs(k) /\ ResultAfter(k).success) =>
             \A i \in Slots :
                /\ Len(ReturnedFor(ResultAfter(k), i)) <= MAX_RETURNED_MESSAGES
                /\ next_unread'[DataOf(k).user_id][i] -
                       next_unread[DataOf(k).user_id][i]
                           \in 0 .. MAX_RETURNED_MESSAGES
                /\ (DataOf(k).next_channel_msg_ids[i] -
                        DataOf(k).next_unread_msg_ids[i] > MAX_RETURNED_MESSAGES)
                   => next_unread'[DataOf(k).user_id][i] <
                          next_msg'[DataOf(k).watched_channel_ids[i]]
      ]_vars

\* A fetch succeeded whose prepare saw a backlog larger than
\* MAX_RETURNED_MESSAGES in a slot; a later fetch read the rest.
C13_Witness ==
    \E k \in DOMAIN executing_reqs :
        /\ IsFetch(k) /\ Succeeded(k)
        /\ \E i \in Slots :
              /\ DataOf(k).next_channel_msg_ids[i] -
                     DataOf(k).next_unread_msg_ids[i] > MAX_RETURNED_MESSAGES
              /\ next_unread[DataOf(k).user_id][i] =
                     next_msg[DataOf(k).watched_channel_ids[i]]

\* Sum over the slots i, i+1, ... of (upperBound[i] - readCursorsSnapshot[i]).
RECURSIVE ClaimedCountFrom(_, _)
ClaimedCountFrom(d, i) ==
    IF i >= CHANNELS_PER_USER
    THEN 0
    ELSE (ClaimedBound(d, i) - d.next_unread_msg_ids[i])
             + ClaimedCountFrom(d, i + 1)

\* C14: the num_messages of a successful execute fetch equals the number of
\* messages it returned, the sum over the slots of
\* (upperBound[i] - readCursorsSnapshot[i]).
C14_NumMessages ==
    [][\A k \in DOMAIN executing_reqs :
          (IsFetch(k) /\ Runs(k) /\ ResultAfter(k).success) =>
             ResultAfter(k).num_messages = ClaimedCountFrom(DataOf(k), 0)
      ]_vars

\* What the code reports instead (holds): one more than that sum.
C14_NumMessagesPlusOne ==
    [][\A k \in DOMAIN executing_reqs :
          (IsFetch(k) /\ Runs(k) /\ ResultAfter(k).success) =>
             ResultAfter(k).num_messages = ClaimedCountFrom(DataOf(k), 0) + 1
      ]_vars

\* C15: a failed (stale) execute fetch returns no messages: its num_messages
\* is 0 and it adds nothing to fetch_message_count.
C15_FailedFetchCountsNothing ==
    [][\A k \in DOMAIN executing_reqs :
          (IsFetch(k) /\ Runs(k) /\ ~ResultAfter(k).success) =>
             /\ ResultAfter(k).num_messages = 0
             /\ fetch_message_count' = fetch_message_count
      ]_vars

\* C16: capacity exhaustion is surfaced as a failure.  An execute post on a
\* channel whose write cursor equals msg_count returns success = false and
\* changes nothing, so no write cursor exceeds msg_count and no slot with an
\* id of msg_count or more is written.
C16_CapacitySurfaced ==
    [][/\ \A k \in DOMAIN executing_reqs :
             (/\ IsPost(k) /\ Runs(k)
              /\ next_msg[DataOf(k).channel_id] = msg_count)
             => /\ ~ResultAfter(k).success
                /\ next_msg' = next_msg
                /\ messages' = messages
       /\ \A c \in Channels : next_msg'[c] <= msg_count
       /\ \A c \in Channels : \A m \in MessageIds :
             messages'[c][m].written => m < msg_count
      ]_vars

\* C17: message immutability.  A written slot keeps its author, timestamp
\* and text in every later state.
C17_MessageImmutable ==
    [][\A c \in Channels : \A m \in MessageIds :
          messages[c][m].written => messages'[c][m] = messages[c][m]
      ]_vars

\* A written slot was read by a fetch, and a later POST that had prepared
\* for the same slot ran and failed.
C17_Witness ==
    \E k \in DOMAIN executing_reqs :
        /\ IsPost(k) /\ Failed(k)
        /\ messages[DataOf(k).channel_id][DataOf(k).next_channel_msg_id].written
        /\ \E f \in DOMAIN executing_reqs :
              /\ IsFetch(f) /\ Succeeded(f)
              /\ \E i \in Slots :
                    /\ DataOf(f).watched_channel_ids[i] = DataOf(k).channel_id
                    /\ DataOf(k).next_channel_msg_id \in
                           ReturnedIdsFor(executing_reqs[f].future.result, i)

\* C18: every read cursor is non-decreasing, and the cursors of user u
\* change only in a step that is a successful execute fetch of user u.
C18_ReadCursorFrame ==
    [][\A u \in Users :
          /\ \A i \in Slots : next_unread'[u][i] >= next_unread[u][i]
          /\ next_unread'[u] # next_unread[u] =>
                \E k \in DOMAIN executing_reqs :
                    /\ IsFetch(k) /\ Runs(k)
                    /\ ResultAfter(k).success
                    /\ DataOf(k).user_id = u
      ]_vars

\* A user's cursor advanced, and POSTs and a fetch of another user ran too.
C18_Witness ==
    \E u \in Users :
        /\ \E i \in Slots : next_unread[u][i] > 0
        /\ \E k \in DOMAIN executing_reqs :
              IsFetch(k) /\ Done(k) /\ DataOf(k).user_id # u
        /\ \E k \in DOMAIN executing_reqs : IsPost(k) /\ Failed(k)

\* C19: the write cursor of channel c changes only in a step that is a
\* successful execute post for channel c, and such a step adds exactly 1.
C19_WriteCursorFrame ==
    [][\A c \in Channels :
          /\ next_msg'[c] # next_msg[c] =>
                \E k \in DOMAIN executing_reqs :
                    /\ IsPost(k) /\ Runs(k)
                    /\ ResultAfter(k).success
                    /\ DataOf(k).channel_id = c
          /\ \A k \in DOMAIN executing_reqs :
                (/\ IsPost(k) /\ Runs(k) /\ ResultAfter(k).success
                 /\ DataOf(k).channel_id = c)
                => next_msg'[c] = next_msg[c] + 1
      ]_vars

\* Two channels were posted to, and a fetch read from one of them.
C19_Witness ==
    \E c1, c2 \in Channels :
        /\ c1 # c2
        /\ next_msg[c1] = 1 /\ next_msg[c2] = 1
        /\ \E k \in DOMAIN executing_reqs :
              /\ IsFetch(k) /\ Succeeded(k)
              /\ \E i \in Slots :
                    /\ DataOf(k).watched_channel_ids[i] = c1
                    /\ next_unread[DataOf(k).user_id][i] = 1

\* The step runs the prepare task of entry k of pending_reqs.
PrepareRuns(k) ==
    /\ k \in DOMAIN pending_reqs'
    /\ pending_reqs'[k].future.seq = pending_reqs[k].future.seq
    /\ ~pending_reqs[k].future.ready
    /\ pending_reqs'[k].future.ready

\* C20: the prepare phase is read-only.  A prepare task leaves every user
\* cursor, channel cursor and message slot unchanged and returns the values
\* the cursors hold when it runs.
C20_PrepareReadOnly ==
    [][\A k \in DOMAIN pending_reqs :
          PrepareRuns(k) =>
             /\ next_unread' = next_unread
             /\ next_msg' = next_msg
             /\ messages' = messages
             /\ pending_reqs'[k].future.result =
                   IF pending_reqs[k].request.action = "FETCH"
                   THEN [next_unread_msg_ids |->
                            next_unread[pending_reqs[k].request.user_id],
                         next_channel_msg_ids |->
                            [i \in Slots |->
                                next_msg[channel_id_mem[
                                    pending_reqs[k].request.user_id][i]]]]
                   ELSE [next_channel_msg_id |->
                            next_msg[pending_reqs[k].request.channel_id]]
      ]_vars

\* A prepared FETCH and a prepared POST both hold a cursor value above 0.
C20_Witness ==
    /\ \E k \in DOMAIN pending_reqs :
          /\ pending_reqs[k].future.kind = "PREPARE_FETCH"
          /\ pending_reqs[k].future.ready
          /\ \E i \in Slots :
                pending_reqs[k].future.result.next_channel_msg_ids[i] > 0
    /\ \E k \in DOMAIN pending_reqs :
          /\ pending_reqs[k].future.kind = "PREPARE_POST"
          /\ pending_reqs[k].future.ready
          /\ pending_reqs[k].future.result.next_channel_msg_id > 0

\* ------------------------------------------------ life of a request
\* A request is Created while in requests, Preparing / PrepareReady while in
\* pending_reqs (future not ready / ready), Executing while in executing_reqs
\* with an unfinished future, and Committed / Aborted once that future is
\* ready with success / without.  A task is identified by its launch
\* number (future.seq).
PendingSeqs == {pending_reqs[m].future.seq : m \in DOMAIN pending_reqs}
LaunchedSeqs ==
    PendingSeqs \cup
    {executing_reqs[k].future.seq : k \in DOMAIN executing_reqs}
PrepareKindOf(request) ==
    IF request.action = "FETCH" THEN "PREPARE_FETCH" ELSE "PREPARE_POST"
ExecuteKindOf(request) ==
    IF request.action = "FETCH" THEN "EXECUTE_FETCH" ELSE "EXECUTE_POST"

\* C21: every request follows Created -> Preparing -> PrepareReady ->
\* Executing -> {Committed | Aborted}.  In every step: the stream loses at
\* most its front request, which enters pending_reqs with an unfinished
\* prepare task; an entry of pending_reqs stays, its future turning ready at
\* most once and keeping its result, or leaves when its future is ready, and
\* then enters executing_reqs with an unfinished execute task; an entry of
\* executing_reqs stays, and is unchanged once its future is ready.
C21_RequestStateMachine ==
    [][/\ \/ requests' = requests
          \/ /\ requests # <<>>
             /\ requests' = Tail(requests)
             /\ pending_reqs' # <<>>
             /\ LET e == pending_reqs'[Len(pending_reqs')]
                IN  /\ e.request = Head(requests)
                    /\ e.future.kind = PrepareKindOf(e.request)
                    /\ ~e.future.ready
                    /\ e.future.seq \notin LaunchedSeqs
       /\ \A j \in DOMAIN pending_reqs' :
             pending_reqs'[j].future.seq \notin PendingSeqs =>
                /\ requests # <<>> /\ requests' = Tail(requests)
                /\ j = Len(pending_reqs')
       /\ \A m \in DOMAIN pending_reqs :
             LET e == pending_reqs[m]
                 stays == \E j \in DOMAIN pending_reqs' :
                             /\ pending_reqs'[j].future.seq = e.future.seq
                             /\ pending_reqs'[j].request = e.request
                             /\ pending_reqs'[j].future.kind = e.future.kind
                             /\ e.future.ready =>
                                   pending_reqs'[j].future = e.future
                 n == Len(executing_reqs')
             IN  \/ stays
                 \/ /\ e.future.ready
                    /\ n = Len(executing_reqs) + 1
                    /\ executing_reqs'[n].request = e.request
                    /\ executing_reqs'[n].future.kind =
                           ExecuteKindOf(e.request)
                    /\ ~executing_reqs'[n].future.ready
                    /\ executing_reqs'[n].future.seq \notin LaunchedSeqs
       /\ Len(executing_reqs') \in
              {Len(executing_reqs), Len(executing_reqs) + 1}
       /\ Len(executing_reqs') = Len(executing_reqs) + 1 =>
             Len(pending_reqs') - Len(requests) + Len(requests') =
                 Len(pending_reqs) - 1
       /\ \A k \in DOMAIN executing_reqs :
             /\ executing_reqs'[k].request = executing_reqs[k].request
             /\ executing_reqs'[k].future.seq = executing_reqs[k].future.seq
             /\ executing_reqs'[k].future.kind = executing_reqs[k].future.kind
             /\ Done(k) => executing_reqs'[k] = executing_reqs[k]
      ]_vars

\* Requests in four of the phases at once: Preparing, PrepareReady,
\* Executing, and finished.
C21_Witness ==
    /\ \E m \in DOMAIN pending_reqs : ~pending_reqs[m].future.ready
    /\ \E m \in DOMAIN pending_reqs : pending_reqs[m].future.ready
    /\ \E k \in DOMAIN executing_reqs : ~Done(k)
    /\ \E k \in DOMAIN executing_reqs : Done(k)

\* Number of requests of the stream of the run.
StreamLength == n_fetch_requests + n_post_requests

\* Every request is in exactly one of the three collections, and a prepare
\* task was launched for each request in pending_reqs, a prepare and an
\* execute task for each request in executing_reqs.
LaunchedOncePerPhase ==
    /\ Len(requests) + Len(pending_reqs) + Len(executing_reqs) = StreamLength
    /\ next_seq = Len(pending_reqs) + 2 * Len(executing_reqs)
    /\ Cardinality(LaunchedSeqs) = Len(pending_reqs) + Len(executing_reqs)
    /\ pc \in {"drain", "done"} =>
          /\ Len(executing_reqs) = StreamLength
          /\ next_seq = 2 * StreamLength
          /\ CountOf([k \in DOMAIN executing_reqs |->
                         executing_reqs[k].request], FetchRequests)
                = n_fetch_requests
    /\ pc = "done" => \A k \in DOMAIN executing_reqs : Done(k)

\* C22: no automatic retry.  Every request of the stream is submitted to its
\* prepare task once and to its execute task once: the stream never grows, a
\* finished request, Aborted or not, launches nothing, and when the loop has
\* ended the number of execute tasks launched equals the number of requests.
C22_NoRetry ==
    /\ []LaunchedOncePerPhase
    /\ [][/\ Len(requests') <= Len(requests)
          /\ next_seq' - next_seq =
                (Len(requests) - Len(requests')) +
                (Len(executing_reqs') - Len(executing_reqs))
         ]_vars

\* The run ended with an Aborted request; nothing was launched for it again.
C22_Witness ==
    /\ pc = "done"
    /\ \E k \in DOMAIN executing_reqs : Failed(k)
    /\ next_seq = 2 * StreamLength

\* ------------------------------------------------------------ termination
\* Runs in which the generator drew user 0 and its first channel every time.
LiveStreams ==
    {s \in RequestStreams :
        \A k \in DOMAIN s : s[k] \in {FetchRequest(0), PostRequest(0, 0)}}

InitLive ==
    /\ next_unread = [u \in Users |-> [i \in Slots |-> 0]]
    /\ next_msg = [c \in Channels |-> 0]
    /\ messages = [c \in Channels |-> [k \in MessageIds |-> UnwrittenSlot]]
    /\ requests \in LiveStreams
    /\ pending_reqs = <<>>
    /\ executing_reqs = <<>>
    /\ time = 0
    /\ n_failed_fetch = 0
    /\ n_failed_post = 0
    /\ fetch_message_count = 0
    /\ drain_ix = 1
    /\ next_seq = 0
    /\ pc = "loop"
    /\ crashed = FALSE
    /\ args = ConfiguredArgs

\* The dispatcher is a running task: it keeps taking the step of its loops
\* that is possible.  Every launched task that may run eventually runs.
DispatcherStep ==
    \/ PassPromoteFetch
    \/ PassPromotePost
    \/ PassNoneReady
    \/ LoopExit
    \/ DrainFetch
    \/ DrainPost
    \/ DrainDone
TaskStep ==
    \/ RunPrepareFetch
    \/ RunPreparePost
    \/ RunExecuteFetch
    \/ RunExecuteFetchAbort
    \/ RunExecutePost

SpecLive ==
    /\ InitLive
    /\ [][Next]_vars
    /\ WF_vars(DispatcherStep)
    /\ WF_vars(TaskStep)

\* The dispatcher left both loops: the stream and pending_reqs are empty and
\* the outcome of every execute task was collected into the counters.
DispatchTerminated ==
    /\ pc = "done"
    /\ requests = <<>>
    /\ pending_reqs = <<>>
    /\ drain_ix = Len(executing_reqs) + 1
    /\ \A k \in DOMAIN executing_reqs : Done(k)
    /\ n_failed_fetch =
          Cardinality({k \in DOMAIN executing_reqs : IsFetch(k) /\ Failed(k)})
    /\ n_failed_post =
          Cardinality({k \in DOMAIN executing_reqs : IsPost(k) /\ Failed(k)})

C24_NoSpuriousAborts ==
    \A k \in DOMAIN executing_reqs :
        Failed(k) => executing_reqs[k].seen = "changed"

\* A POST and a FETCH both aborted in one run.
C24_Witness ==
    /\ \E k \in DOMAIN executing_reqs : IsPost(k) /\ Failed(k)
    /\ \E k \in DOMAIN executing_reqs : IsFetch(k) /\ Failed(k)

\* ------------------------------------------------------------ visibility
\* Message m of the channel followed in slot i was committed before the
\* prepare of the fetch with data d and lies in the window of that fetch.
VisibleAtPrepare(d, i, m) ==
    /\ d.next_unread_msg_ids[i] <= m
    /\ m < d.next_channel_msg_ids[i]
    /\ m < d.next_unread_msg_ids[i] + MAX_RETURNED_MESSAGES

\* C25: post-then-fetch visibility.  A successful execute fetch returns every
\* message (c, m) that was committed before its prepare and lies in the
\* window [ReadCursor, ReadCursor + MAX_RETURNED_MESSAGES) of its slot, with
\* the posted author and text, and leaves the read cursor above m; slots
\* with no new messages keep their cursor.
C25_PostThenFetchVisible ==
    [][\A k \in DOMAIN executing_reqs :
          (IsFetch(k) /\ Runs(k) /\ ResultAfter(k).success) =>
             LET d == DataOf(k)
             IN  \A i \in Slots :
                    /\ \A m \in MessageIds :
                          VisibleAtPrepare(d, i, m) =>
                             /\ \E n \in DOMAIN ReturnedFor(ResultAfter(k), i) :
                                   LET e == ReturnedFor(ResultAfter(k), i)[n]
                                       c == d.watched_channel_ids[i]
                                   IN  /\ e.message_id = m
                                       /\ e.author_id = messages[c][m].author_id
                                       /\ e.text = messages[c][m].text
                             /\ next_unread'[d.user_id][i] > m
                    /\ d.next_unread_msg_ids[i] = d.next_channel_msg_ids[i]
                          => next_unread'[d.user_id][i] =
                                 next_unread[d.user_id][i]
      ]_vars

\* The cursor part of C25 alone (holds): the cursor passes every visible
\* message and idle slots keep theirs.
C25_CursorPart ==
    [][\A k \in DOMAIN executing_reqs :
          (IsFetch(k) /\ Runs(k) /\ ResultAfter(k).success) =>
             LET d == DataOf(k)
             IN  \A i \in Slots :
                    /\ \A m \in MessageIds :
                          VisibleAtPrepare(d, i, m) =>
                             next_unread'[d.user_id][i] > m
                    /\ d.next_unread_msg_ids[i] = d.next_channel_msg_ids[i]
                          => next_unread'[d.user_id][i] =
                                 next_unread[d.user_id][i]
      ]_vars

\* ------------------------------------------------------------ arguments
\* Faulty variant, used to test the properties: the quotient is rounded up.
NPostRequests_RoundedUp(a) ==
    (a.n_requests + a.request_ratio) \div (a.request_ratio + 1)

\* unsigned long n_post_requests = n_requests / (request_ratio + 1);
NPostRequests(a) == a.n_requests \div (a.request_ratio + 1)
\* unsigned long n_fetch_requests = n_post_requests * request_ratio;
NFetchRequests(a) == NPostRequests(a) * a.request_ratio

\* The deque generated for the command line a: NFetchRequests(a) FETCHes and
\* NPostRequests(a) POSTs, shuffled (runs in which the generator drew user 0
\* and its first channel every time).
GeneratedStreams(a) ==
    {s \in [1 .. (NFetchRequests(a) + NPostRequests(a)) ->
               {FetchRequest(0), PostRequest(0, 0)}] :
        /\ CountOf(s, {FetchRequest(0)}) = NFetchRequests(a)
        /\ CountOf(s, {PostRequest(0, 0)}) = NPostRequests(a)}

\* Command lines tried: each value missing (0) or as in the runs modelled,
\* too few channels, a request count too low for the ratio, and a request
\* count that request_ratio + 1 does not divide.
ArgumentChoices ==
    [user_count : {0, user_count},
     channel_count : {0, CHANNELS_PER_USER - 1, channel_count},
     msg_count : {0, msg_count},
     n_requests : {0, 1, n_requests, n_requests + 1},
     request_ratio : {0, request_ratio}]

InitConfig ==
    /\ next_unread = [u \in Users |-> [i \in Slots |-> 0]]
    /\ next_msg = [c \in Channels |-> 0]
    /\ messages = [c \in Channels |-> [k \in MessageIds |-> UnwrittenSlot]]
    /\ requests = <<>>
    /\ pending_reqs = <<>>
    /\ executing_reqs = <<>>
    /\ time = 0
    /\ n_failed_fetch = 0
    /\ n_failed_post = 0
    /\ fetch_message_count = 0
    /\ drain_ix = 1
    /\ next_seq = 0
    /\ pc = "start"
    /\ crashed = FALSE
    /\ args \in ArgumentChoices

\* One of the three checks fails: exit(EXIT_FAILURE).
ArgumentsRejected ==
    /\ pc = "start"
    /\ ~ArgumentsValid(args)
    /\ pc' = "failed"
    /\ UNCHANGED <<store, requests, pending_reqs, executing_reqs, time,
                   n_failed_fetch, n_failed_post, fetch_message_count,
                   drain_ix, next_seq, crashed, args>>

\* The checks pass: the regions are initialised, the request stream is
\* generated and the main loop is entered.
ArgumentsAccepted ==
    /\ pc = "start"
    /\ ArgumentsValid(args)
    /\ requests' \in GeneratedStreams(args)
    /\ pc' = "loop"
    /\ UNCHANGED <<store, pending_reqs, executing_reqs, time,
                   n_failed_fetch, n_failed_post, fetch_message_count,
                   drain_ix, next_seq, crashed, args>>

NextConfig ==
    \/ ArgumentsRejected
    \/ ArgumentsAccepted
    \/ PassPromoteFetch
    \/ PassPromotePost
    \/ PassNoneReady
    \/ LoopExit
    \/ DrainFetch
    \/ DrainPost
    \/ DrainDone
    \/ RunPrepareFetch
    \/ RunPreparePost
    \/ RunExecuteFetch
    \/ RunExecuteFetchAbort
    \/ RunExecutePost

SpecConfig == InitConfig /\ [][NextConfig]_vars

\* The configuration errors listed by the claim.
ConfigurationError ==
    \/ args.user_count = 0
    \/ args.channel_count = 0
    \/ args.msg_count = 0
    \/ args.n_requests = 0
    \/ args.request_ratio = 0
    \/ args.channel_count < CHANNELS_PER_USER
    \/ args.n_requests \div (args.request_ratio + 1) = 0

\* No task was launched and no shard was written.
NoWorkDone ==
    /\ next_seq = 0
    /\ pending_reqs = <<>>
    /\ executing_reqs = <<>>
    /\ next_unread = [u \in Users |-> [i \in Slots |-> 0]]
    /\ next_msg = [c \in Channels |-> 0]
    /\ messages = [c \in Channels |-> [k \in MessageIds |-> UnwrittenSlot]]

\* C26: configuration errors are fatal before any work.  With a zero
\* user_count, channel_count, msg_count, n_requests or request_ratio, with
\* channel_count < CHANNELS_PER_USER, or with n_requests / (request_ratio + 1)
\* = 0, the only step the process takes leads to the failed exit, and no
\* prepare or execute task is ever launched and no shard is ever written.
C26_ConfigErrorsFatal ==
    /\ [](ConfigurationError => (pc \in {"start", "failed"} /\ NoWorkDone))
    /\ [][(ConfigurationError /\ pc = "start") => pc' = "failed"]_vars

\* The process exited with failure on a command line whose values are all
\* non-zero and whose channel count suffices: the request count was too low
\* for the ratio.
C26_Witness ==
    /\ pc = "failed"
    /\ args.user_count # 0 /\ args.msg_count # 0 /\ args.request_ratio # 0
    /\ args.n_requests # 0
    /\ args.channel_count >= CHANNELS_PER_USER
    /\ NoWorkDone

\* ------------------------------------------------------------ fetch bound
\* C27 (as stated): the upper bound of a successful execute fetch follows the
\* channel's write cursor at execute time: for every slot the read cursor
\* becomes min(write cursor now, read snapshot + MAX_RETURNED_MESSAGES), so
\* a message committed between prepare and execute is covered.
C27_BoundAtExecuteTime ==
    [][\A k \in DOMAIN executing_reqs :
          (IsFetch(k) /\ Runs(k) /\ ResultAfter(k).success) =>
             LET d == DataOf(k)
             IN  \A i \in Slots :
                    next_unread'[d.user_id][i] =
                        Min(next_msg[d.watched_channel_ids[i]],
                            d.next_unread_msg_ids[i] + MAX_RETURNED_MESSAGES)
      ]_vars

\* C27 (amended): the upper bound is the write cursor captured by the prepare
\* task.  When a POST to the followed channel commits between a FETCH's
\* prepare and its execute, the successful execute fetch still advances the
\* cursor to min(prepare's write cursor, read snapshot + MAX_RETURNED_MESSAGES),
\* which stays below the channel's write cursor, and returns no message id
\* at or above prepare's write cursor.
C27_BoundAtPrepareTime ==
    [][\A k \in DOMAIN executing_reqs :
          (IsFetch(k) /\ Runs(k) /\ ResultAfter(k).success) =>
             LET d == DataOf(k)
             IN  \A i \in Slots :
                    next_msg[d.watched_channel_ids[i]] >
                        d.next_channel_msg_ids[i]
                    => /\ next_unread'[d.user_id][i] =
                              Min(d.next_channel_msg_ids[i],
                                  d.next_unread_msg_ids[i] +
                                      MAX_RETURNED_MESSAGES)
                       /\ next_unread'[d.user_id][i] <
                              next_msg[d.watched_channel_ids[i]]
                       /\ \A m \in ReturnedIdsFor(ResultAfter(k), i) :
                              m < d.next_channel_msg_ids[i]
      ]_vars

\* A fetch succeeded and returned nothing for a slot that was idle at its
\* prepare, although a message was committed there before it executed.
C27_Witness ==
    \E k \in DOMAIN executing_reqs :
        /\ IsFetch(k) /\ Succeeded(k)
        /\ \E i \in Slots :
              /\ DataOf(k).next_channel_msg_ids[i] =
                     DataOf(k).next_unread_msg_ids[i]
              /\ executing_reqs[k].future.result.at_execute[i] >
                     DataOf(k).next_channel_msg_ids[i]
              /\ ReturnedIdsFor(executing_reqs[k].future.result, i) = {}

\* ------------------------------------------------------------ promotion
\* C28 (as stated): in a pass of the main loop every pending request whose
\* prepare task had completed at the scan leaves pending_reqs in that pass,
\* not only the first one found.
C28_AllReadyPromoted ==
    [][(pc = "loop" /\ next_seq' # next_seq) =>
          \A k \in ReadyPositions :
             pending_reqs[k].future.seq \notin PendingSeqs']_vars

\* C28 (amended): a pass of the main loop promotes at most one request, the
\* first entry of pending_reqs (in list order) whose prepare task had
\* completed at the scan: its execute task is launched and it moves to
\* executing_reqs; every other entry, ready or not, stays in pending_reqs in
\* the same order.
C28_FirstReadyPromoted ==
    [][(pc = "loop" /\ next_seq' # next_seq) =>
          IF ReadyPositions = {}
          THEN /\ executing_reqs' = executing_reqs
               /\ SubSeq(pending_reqs', 1, Len(pending_reqs)) = pending_reqs
          ELSE LET first == CHOOSE k \in ReadyPositions :
                                \A m \in ReadyPositions : k <= m
                   n == Len(executing_reqs')
               IN  /\ n = Len(executing_reqs) + 1
                   /\ executing_reqs'[n].request = pending_reqs[first].request
                   /\ executing_reqs'[n].future.kind =
                          ExecuteKindOf(pending_reqs[first].request)
                   /\ SubSeq(executing_reqs', 1, n - 1) = executing_reqs
                   /\ SubSeq(pending_reqs', 1, Len(pending_reqs) - 1) =
                          [m \in 1 .. (Len(pending_reqs) - 1) |->
                              pending_reqs[IF m < first THEN m ELSE m + 1]]
      ]_vars

\* Two prepared requests are pending after a pass that promoted one: the
\* entry launched before the execute task of the last promotion is still in
\* pending_reqs, ready, next to another ready entry.
C28_Witness ==
    /\ pc = "loop"
    /\ executing_reqs # <<>>
    /\ Cardinality(ReadyPositions) >= 2
    /\ \E k \in ReadyPositions :
          pending_reqs[k].future.seq <
              executing_reqs[Len(executing_reqs)].future.seq

\* ------------------------------------------------------------ non-blocking
\* One pass of the main loop (scan, then admission).
MainLoopPass ==
    \/ PassPromoteFetch
    \/ PassPromotePost
    \/ PassNoneReady

\* While the loop runs, a pass can always be taken; with a ready entry in
\* pending_reqs it can promote, with a request in the stream it can admit.
PassNeverBlocked ==
    (pc = "loop" /\ ~crashed /\ LoopCondition) =>
        /\ ENABLED MainLoopPass
        /\ ReadyPositions # {} =>
              ENABLED (MainLoopPass /\
                       Len(executing_reqs') = Len(executing_reqs) + 1)
        /\ requests # <<>> =>
              ENABLED (MainLoopPass /\ requests' = Tail(requests))

\* C29: while the main loop runs the dispatcher never blocks on an unfinished
\* task.  A pass is always possible; the prepare result used to launch an
\* execute task is the result of an entry of pending_reqs whose future was
\* ready; a ready entry is promoted also when entries in front of it are not
\* ready; and every pass taken with a non-empty stream admits its front
\* request, whatever the state of the pending futures.
C29_NeverBlocks ==
    /\ []PassNeverBlocked
    /\ [][(pc = "loop" /\ next_seq' # next_seq) =>
             /\ Len(executing_reqs') > Len(executing_reqs) =>
                   \E m \in ReadyPositions :
                      LET e == executing_reqs'[Len(executing_reqs')]
                          r == pending_reqs[m].future.result
                      IN  /\ e.request = pending_reqs[m].request
                          /\ r # NoResult
                          /\ pending_reqs[m].future.seq \notin PendingSeqs'
                          /\ IF e.request.action = "FETCH"
                             THEN /\ e.future.data.next_unread_msg_ids =
                                         r.next_unread_msg_ids
                                  /\ e.future.data.next_channel_msg_ids =
                                         r.next_channel_msg_ids
                             ELSE e.future.data.next_channel_msg_id =
                                      r.next_channel_msg_id
             /\ ReadyPositions # {} =>
                   Len(executing_reqs') = Len(executing_reqs) + 1
             /\ requests # <<>> => requests' = Tail(requests)
         ]_vars

\* The oldest pending request is still preparing although a request
\* admitted after it was already promoted and the stream was consumed past it.
C29_Witness ==
    /\ pc = "loop"
    /\ pending_reqs # <<>>
    /\ ~pending_reqs[1].future.ready
    /\ pending_reqs[1].future.seq < Len(executing_reqs)
    /\ Len(pending_reqs) >= 2

\* ------------------------------------------------------------ admission
\* How many of the requests of the run equal to r are in the stream, in
\* pending_reqs or in executing_reqs.
InStream(r) == Cardinality({k \in DOMAIN requests : requests[k] = r})
InPending(r) ==
    Cardinality({k \in DOMAIN pending_reqs : pending_reqs[k].request = r})
InExecuting(r) ==
    Cardinality({k \in DOMAIN executing_reqs : executing_reqs[k].request = r})
Uncollected(r) == InStream(r) + InPending(r) + InExecuting(r)

\* C30: each pass of the main loop admits at most one request, the front of
\* the stream: the stream either stays or loses its front request, and it
\* loses it exactly in the step that launches the request's prepare task and
\* appends it to pending_reqs.  No step changes how many copies of a request
\* the stream, pending_reqs and executing_reqs hold together, and their
\* sizes add up to the number of requests of the run.
C30_AdmitFrontOnly ==
    /\ [](Len(requests) + Len(pending_reqs) + Len(executing_reqs) =
              n_fetch_requests + n_post_requests)
    /\ [][/\ requests' = requests \/ requests' = SubSeq(requests, 2, Len(requests))
          /\ \A r \in FetchRequests \cup PostRequests :
                Uncollected(r)' = Uncollected(r)
          /\ (requests' # requests) <=>
                (/\ pending_reqs' # <<>>
                 /\ pending_reqs'[Len(pending_reqs')].future.seq
                        \notin PendingSeqs
                 /\ ~pending_reqs'[Len(pending_reqs')].future.ready)
          /\ (requests' # requests) =>
                \A front \in {requests[1]} :
                   /\ pending_reqs'[Len(pending_reqs')].request = front
                   /\ InStream(front)' = InStream(front) - 1
         ]_vars

\* The stream, pending_reqs and executing_reqs are all non-empty, and the
\* request admitted last differs from the one now at the front.
C30_Witness ==
    /\ requests # <<>>
    /\ pending_reqs # <<>>
    /\ executing_reqs # <<>>
    /\ pending_reqs[Len(pending_reqs)].request # requests[1]

\* ------------------------------------------------------------ time counter
\* The step is a pass of the main loop that launched the execute task of a
\* POST.
PromotesPost ==
    /\ Len(executing_reqs') = Len(executing_reqs) + 1
    /\ executing_reqs'[Len(executing_reqs')].future.kind = "EXECUTE_POST"

\* C31 (as stated): the dispatcher's time counter is incremented once per
\* request admitted and at no other point, so once the whole stream has been
\* admitted it equals the number of requests admitted.
C31_TimeOncePerAdmission ==
    /\ [][time' - time = Len(requests) - Len(requests')]_vars
    /\ [](requests = <<>> =>
             time = Len(pending_reqs) + Len(executing_reqs))

\* C31 (amended): the time counter is incremented once per request admitted
\* and once more per POST promoted, and at no other point; when the main
\* loop has ended it equals the number of requests plus the number of POSTs.
C31_TimePerAdmissionAndPost ==
    /\ [][time' - time =
             (Len(requests) - Len(requests')) +
             (IF PromotesPost THEN 1 ELSE 0)]_vars
    /\ [](time =
             Len(pending_reqs) + Len(executing_reqs) +
             Cardinality({k \in DOMAIN executing_reqs : IsPost(k)}))
    /\ [](pc \in {"drain", "done"} =>
             time = StreamLength + n_post_requests)

\* The whole stream was admitted and promoted, and the counter is above the
\* number of requests.
C31_Witness ==
    /\ pc = "done"
    /\ time = StreamLength + n_post_requests
    /\ time > Len(executing_reqs)

\* ------------------------------------------------------------ determinism
\* The channel every POST of StampStream goes to, and its authors: user u
\* follows it at slot StampChannel - u.
StampChannel == CHANNELS_PER_USER - 1
StampAuthors == Min(user_count, CHANNELS_PER_USER)

\* One fixed request stream: the POSTs first, all to one channel and each by
\* a different author so that a POST is recognised by its request, then the
\* FETCHes.
StampStream ==
    [k \in 1 .. (n_post_requests + n_fetch_requests) |->
        IF k <= n_post_requests
        THEN PostRequest((k - 1) % StampAuthors,
                         StampChannel - ((k - 1) % StampAuthors))
        ELSE FetchRequest((k - 1 - n_post_requests) % user_count)]

InitStamp ==
    /\ next_unread = [u \in Users |-> [i \in Slots |-> 0]]
    /\ next_msg = [c \in Channels |-> 0]
    /\ messages = [c \in Channels |-> [k \in MessageIds |-> UnwrittenSlot]]
    /\ requests = StampStream
    /\ pending_reqs = <<>>
    /\ executing_reqs = <<>>
    /\ time = 0
    /\ n_failed_fetch = 0
    /\ n_failed_post = 0
    /\ fetch_message_count = 0
    /\ drain_ix = 1
    /\ next_seq = 0
    /\ pc = "loop"
    /\ crashed = FALSE
    /\ args = ConfiguredArgs

SpecStamp == InitStamp /\ [][Next]_vars

\* Position in StampStream of the POST request r.
StampPosition(r) == CHOOSE p \in DOMAIN StampStream : StampStream[p] = r

\* The timestamp request number p of stream s gets in the execution where
\* every prepare task completes before the next pass of the main loop: the
\* request is promoted in pass p + 1, after p admissions and after the
\* promotion of the POSTs in front of it.
PromptTimestamp(s, p) ==
    p + Cardinality({q \in 1 .. (p - 1) : s[q].action = "POST"})

\* C32: timestamp determinism.  For the fixed stream StampStream the
\* timestamp stamped on each POST is the same in every execution, whenever
\* the prepare futures become ready: it is the one of the execution in which
\* every prepare completes at once.
C32_TimestampDeterministic ==
    \A k \in DOMAIN executing_reqs :
        IsPost(k) =>
            DataOf(k).message.timestamp =
                PromptTimestamp(StampStream,
                                StampPosition(executing_reqs[k].request))

\* The execution the timestamps are compared with is one of the executions:
\* here every POST of StampStream carries its prompt timestamp.
C32_PromptRun ==
    /\ Cardinality({k \in DOMAIN executing_reqs : IsPost(k)}) = n_post_requests
    /\ C32_TimestampDeterministic

\* ------------------------------------------------------------ commit order
\* C33: message ids follow commit order.  A successful execute post commits
\* an id above the id of every POST that committed on its channel before it;
\* the order in which the requests were admitted from the stream plays no
\* part.
C33_IdsFollowCommitOrder ==
    [][\A k \in DOMAIN executing_reqs :
          (IsPost(k) /\ Runs(k) /\ ResultAfter(k).success) =>
             \A j \in DOMAIN executing_reqs :
                (/\ j # k /\ IsPost(j) /\ Succeeded(j)
                 /\ DataOf(j).channel_id = DataOf(k).channel_id)
                => DataOf(j).next_channel_msg_id <
                       DataOf(k).next_channel_msg_id]_vars

\* The two POSTs at the front of StampStream, both to StampChannel, both
\* committed one after the other: ids 0 and 1.
C33_Witness ==
    /\ n_post_requests >= 2
    /\ \E j, k \in DOMAIN executing_reqs :
          /\ IsPost(j) /\ Succeeded(j) /\ IsPost(k) /\ Succeeded(k)
          /\ executing_reqs[j].request = StampStream[1]
          /\ executing_reqs[k].request = StampStream[2]
          /\ DataOf(j).channel_id = DataOf(k).channel_id
          /\ DataOf(j).next_channel_msg_id = 0
          /\ DataOf(k).next_channel_msg_id = 1
    /\ next_msg[StampStream[1].channel_id] = 2

\* The case "the later commit was admitted first" does not arise when both
\* POSTs succeed: the prepare task of the request admitted first is launched
\* before the execute task of the other and reads the same channel cursor,
\* so it runs first; had the other committed meanwhile, the first would be
\* stale.  Message 0 of StampChannel is never the POST admitted second.
C33_NeverReordered ==
    (n_post_requests >= 2 /\ next_msg[StampStream[1].channel_id] = 2) =>
        messages[StampStream[1].channel_id][0].author_id =
            StampStream[1].user_id

\* ------------------------------------------------------------ fetch regions
\* A run with a longer stream (a larger -t): skew_n_fetch - 1 FETCHes of
\* user 0, then MAX_RETURNED_MESSAGES + 1 POSTs of user 0 to the channel of
\* its slot 0 and one POST to the channel of its slot 1, then one more FETCH
\* of user 0.
skew_n_post == MAX_RETURNED_MESSAGES + 2
skew_n_fetch == skew_n_post * request_ratio
skew_first == skew_n_fetch - 1
SkewStream ==
    [k \in 1 .. (skew_n_post + skew_n_fetch) |->
        IF k <= skew_first THEN FetchRequest(0)
        ELSE IF k < skew_first + skew_n_post THEN PostRequest(0, 0)
        ELSE IF k = skew_first + skew_n_post THEN PostRequest(0, 1)
        ELSE FetchRequest(0)]

InitSkewWhole ==
    /\ next_unread = [u \in Users |-> [i \in Slots |-> 0]]
    /\ next_msg = [c \in Channels |-> 0]
    /\ messages = [c \in Channels |-> [k \in MessageIds |-> UnwrittenSlot]]
    /\ requests = SkewStream
    /\ pending_reqs = <<>>
    /\ executing_reqs = <<>>
    /\ time = 0
    /\ n_failed_fetch = 0
    /\ n_failed_post = 0
    /\ fetch_message_count = 0
    /\ drain_ix = 1
    /\ next_seq = 0
    /\ pc = "loop"
    /\ crashed = FALSE
    /\ args = ConfiguredArgs

\* The whole run on SkewStream.
SpecSkewWhole == InitSkewWhole /\ [][Next]_vars

\* The run on SkewStream is taken up after its first skew_first +
\* MAX_RETURNED_MESSAGES + 1 passes, in the execution where each prepare
\* and execute task so far completed before the next pass: the first
\* FETCHes (nothing to read) and MAX_RETURNED_MESSAGES POSTs have committed,
\* the next POST was just admitted.  Pass p promoted request p - 1 and
\* admitted request p, so request p has launch numbers 2p - 2 and 2p - 1.
SkewFetchData ==
    [user_id |-> 0,
     watched_channel_ids |-> channel_id_mem[0],
     next_unread_msg_ids |-> [i \in Slots |-> 0],
     next_channel_msg_ids |-> [i \in Slots |-> 0]]
SkewFetchEntry(p) ==
    [future |->
        [seq |-> 2 * p - 1, kind |-> "EXECUTE_FETCH", data |-> SkewFetchData,
         regions |-> Regions({}, {UnreadShard(0)}, <<>>),
         ready |-> TRUE,
         result |-> [success |-> TRUE, num_messages |-> FetchFirstIndex,
                     messages |-> EmptyMessageList,
                     at_execute |-> [i \in Slots |-> 0]]],
     request |-> FetchRequest(0),
     seen |-> "none"]
\* The m-th POST was stamped in pass skew_first + m + 1, after
\* skew_first + m admissions and m - 1 POST promotions.
SkewPostTimestamp(m) == skew_first + 2 * m - 1
SkewPostData(m) ==
    [channel_id |-> channel_id_mem[0][0],
     next_channel_msg_id |-> m - 1,
     message |-> [message_id |-> m - 1, author_id |-> 0,
                  timestamp |-> SkewPostTimestamp(m),
                  text |-> PostRequest(0, 0).message]]
SkewPostEntry(m) ==
    [future |->
        [seq |-> 2 * (skew_first + m) - 1, kind |-> "EXECUTE_POST",
         data |-> SkewPostData(m),
         regions |-> Regions({},
                             {ChannelShard(channel_id_mem[0][0]),
                              MessageShard(channel_id_mem[0][0], m - 1)},
                             <<>>),
         ready |-> TRUE, result |-> [success |-> TRUE]],
     request |-> PostRequest(0, 0),
     seen |-> "none"]

InitSkew ==
    /\ next_unread = [u \in Users |-> [i \in Slots |-> 0]]
    /\ next_msg = [c \in Channels |->
                      IF c = channel_id_mem[0][0]
                      THEN MAX_RETURNED_MESSAGES ELSE 0]
    /\ messages =
          [c \in Channels |-> [k \in MessageIds |->
              IF c = channel_id_mem[0][0] /\ k < MAX_RETURNED_MESSAGES
              THEN WrittenSlot(0, SkewPostTimestamp(k + 1),
                               PostRequest(0, 0).message)
              ELSE UnwrittenSlot]]
    /\ requests = <<PostRequest(0, 1), FetchRequest(0)>>
    /\ pending_reqs =
          <<PrepareLaunch(PostRequest(0, 0),
                          2 * (skew_first + MAX_RETURNED_MESSAGES))>>
    /\ executing_reqs =
          [k \in 1 .. (skew_first + MAX_RETURNED_MESSAGES) |->
              IF k <= skew_first
              THEN SkewFetchEntry(k)
              ELSE SkewPostEntry(k - skew_first)]
    /\ time = skew_first + 2 * MAX_RETURNED_MESSAGES + 1
    /\ n_failed_fetch = 0
    /\ n_failed_post = 0
    /\ fetch_message_count = skew_first * FetchFirstIndex
    /\ drain_ix = 1
    /\ next_seq = 2 * (skew_first + MAX_RETURNED_MESSAGES) + 1
    /\ pc = "loop"
    /\ crashed = FALSE
    /\ args = ConfiguredArgs

SpecSkew == InitSkew /\ [][Next]_vars

\* The state SpecSkew starts in is a state of the whole run (it is reached
\* under SpecSkewWhole).
SkewPrefixReached == InitSkew

\* C34: fetch reads come from the right channel.  In every successful
\* execute fetch, the region at the position the handler uses for its visit
\* of (slot i, message id j) is the sub-region (watched_channel_ids[i], j)
\* the dispatcher declared, for all slots, also when the backlog of an
\* earlier slot at prepare time exceeds MAX_RETURNED_MESSAGES.
C34_ReadsDeclaredRegion ==
    [][\A k \in DOMAIN executing_reqs :
          (IsFetch(k) /\ Runs(k) /\ ResultAfter(k).success) =>
             LET d == DataOf(k)
                 declared == executing_reqs[k].future.regions.msgs
                 visits == FetchReads(d)
             IN  \A n \in DOMAIN visits :
                    /\ FetchIndexOf(n) \in DOMAIN declared
                    /\ declared[FetchIndexOf(n)] =
                           <<d.watched_channel_ids[visits[n].slot],
                             visits[n].message_id>>
      ]_vars

\* The same for fetches in which no slot has more than
\* MAX_RETURNED_MESSAGES unread messages at prepare time (holds).
C34_ReadsDeclaredRegionNoBacklog ==
    [][\A k \in DOMAIN executing_reqs :
          (/\ IsFetch(k) /\ Runs(k) /\ ResultAfter(k).success
           /\ \A i \in Slots :
                 DataOf(k).next_channel_msg_ids[i] <=
                     DataOf(k).next_unread_msg_ids[i] + MAX_RETURNED_MESSAGES)
          => LET d == DataOf(k)
                 declared == executing_reqs[k].future.regions.msgs
                 visits == FetchReads(d)
             IN  \A n \in DOMAIN visits :
                    /\ FetchIndexOf(n) \in DOMAIN declared
                    /\ declared[FetchIndexOf(n)] =
                           <<d.watched_channel_ids[visits[n].slot],
                             visits[n].message_id>>
      ]_vars

\* ------------------------------------------------------------ response list
\* C35: response buffer bound.  Every position of response.messages that a
\* successful execute fetch writes is below MAX_RETURNED_MESSAGES, whatever
\* the backlogs of the followed channels.
C35_ResponseBufferBound ==
    [][\A k \in DOMAIN executing_reqs :
          (IsFetch(k) /\ Runs(k) /\ ResultAfter(k).success) =>
             \A n \in DOMAIN FetchReads(DataOf(k)) :
                FetchIndexOf(n) < MAX_RETURNED_MESSAGES]_vars

\* What holds instead: the positions written are 1 .. number of messages
\* visited, and at most CHANNELS_PER_USER * MAX_RETURNED_MESSAGES messages
\* are visited.
C35_PositionsFromOne ==
    [][\A k \in DOMAIN executing_reqs :
          (IsFetch(k) /\ Runs(k) /\ ResultAfter(k).success) =>
             /\ \A n \in DOMAIN FetchReads(DataOf(k)) : FetchIndexOf(n) = n
             /\ Len(FetchReads(DataOf(k))) <=
                    CHANNELS_PER_USER * MAX_RETURNED_MESSAGES]_vars

\* ------------------------------------------------------------ accounting
\* The drain loop has collected the entries in front of drain_ix.
Collected == {k \in DOMAIN executing_reqs : k < drain_ix}
CollectedFailed(action) ==
    Cardinality({k \in Collected :
                    /\ executing_reqs[k].request.action = action
                    /\ ~executing_reqs[k].future.result.success})
CollectedSucceeded(action) ==
    Cardinality({k \in Collected :
                    /\ executing_reqs[k].request.action = action
                    /\ executing_reqs[k].future.result.success})

\* C36: outcome accounting.  The failure counters count the collected
\* requests of their kind whose execute task returned success = false; the
\* drain loop collects the entries of executing_reqs one by one, each once;
\* after the drain every request is collected, so failures plus successes
\* is the number of requests of each kind.
C36_OutcomeAccounting ==
    /\ [](/\ n_failed_fetch = CollectedFailed("FETCH")
          /\ n_failed_post = CollectedFailed("POST")
          /\ \A k \in Collected : Done(k)
          /\ pc = "loop" => drain_ix = 1)
    /\ [](pc = "done" =>
             /\ Collected = DOMAIN executing_reqs
             /\ n_failed_fetch + CollectedSucceeded("FETCH") = n_fetch_requests
             /\ n_failed_post + CollectedSucceeded("POST") = n_post_requests)
    /\ [][/\ drain_ix' \in {drain_ix, drain_ix + 1}
          /\ drain_ix' # drain_ix => executing_reqs' = executing_reqs]_vars

\* The drain ended with one failed FETCH and one failed POST counted, next
\* to successes of both kinds.
C36_Witness ==
    /\ pc = "done"
    /\ n_failed_fetch >= 1 /\ n_failed_post >= 1
    /\ CollectedSucceeded("FETCH") >= 1 /\ CollectedSucceeded("POST") >= 1

\* ------------------------------------------------------------ commutation
\* Two execute tasks with different shard keys, in the sense of C37: POSTs
\* on different channels, FETCHes of different users, or a POST and a FETCH.
DisjointKeys(j, k) ==
    \/ /\ IsPost(j) /\ IsPost(k)
       /\ DataOf(j).channel_id # DataOf(k).channel_id
    \/ /\ IsFetch(j) /\ IsFetch(k)
       /\ DataOf(j).user_id # DataOf(k).user_id
    \/ IsPost(j) /\ IsFetch(k)
    \/ IsFetch(j) /\ IsPost(k)

\* What the execute task of entry k would do if it ran in this state: the
\* success flag it would return, the values it would write on success, and
\* the present content of the places it would write.
WouldSucceed(k) ==
    IF IsPost(k) THEN PostIsCurrent(DataOf(k)) ELSE FetchIsCurrent(DataOf(k))
WouldWrite(k) ==
    IF IsPost(k)
    THEN <<PostWrittenSlot(DataOf(k)), PostAdvancedCursor(DataOf(k))>>
    ELSE <<FetchAdvancedCursors(DataOf(k))>>
WritePlaces(k) ==
    IF IsPost(k)
    THEN <<next_msg[DataOf(k).channel_id], messages[DataOf(k).channel_id]>>
    ELSE <<next_unread[DataOf(k).user_id]>>

\* C37: executes on disjoint shard keys commute.  When an execute task runs,
\* every other unfinished execute task with a different key would, after
\* that step, return the same success flag and write the same values as
\* before it, and the places it writes were not touched by the step; so
\* the two tasks give the same flags and the same final store in either
\* order.
C37_DisjointExecutesCommute ==
    [][\A j \in DOMAIN executing_reqs :
          Runs(j) =>
             \A k \in DOMAIN executing_reqs :
                (k # j /\ ~Done(k) /\ DisjointKeys(j, k)) =>
                   /\ WouldSucceed(k)' = WouldSucceed(k)
                   /\ WouldWrite(k)' = WouldWrite(k)
                   /\ WritePlaces(k)' = WritePlaces(k)]_vars

\* A POST committed while a FETCH of a user who follows its channel was
\* waiting to execute, and the FETCH then succeeded; and two POSTs on
\* different channels both committed.
C37_Witness ==
    /\ \E j, k \in DOMAIN executing_reqs :
          /\ IsPost(j) /\ Succeeded(j) /\ IsFetch(k) /\ Succeeded(k)
          /\ \E i \in Slots :
                /\ DataOf(k).watched_channel_ids[i] = DataOf(j).channel_id
                /\ DataOf(k).next_channel_msg_ids[i] =
                       DataOf(j).next_channel_msg_id
                /\ executing_reqs[k].future.result.at_execute[i] >
                       DataOf(j).next_channel_msg_id
    /\ \E j, k \in DOMAIN executing_reqs :
          /\ IsPost(j) /\ Succeeded(j) /\ IsPost(k) /\ Succeeded(k)
          /\ DataOf(j).channel_id # DataOf(k).channel_id

\* ------------------------------------------------------------ request counts
\* The requests driven through the pipeline: in the stream, pending or
\* executing.
InPipeline(kind) ==
    Cardinality({k \in DOMAIN requests : requests[k].action = kind}) +
    Cardinality({k \in DOMAIN pending_reqs :
                    pending_reqs[k].request.action = kind}) +
    Cardinality({k \in DOMAIN executing_reqs :
                    executing_reqs[k].request.action = kind})

\* C38: request counts.  Once the command line is accepted the pipeline
\* holds exactly floor(n_requests / (request_ratio + 1)) POSTs and
\* request_ratio times as many FETCHes, in every state; their sum is at most
\* n_requests and equals it exactly when request_ratio + 1 divides
\* n_requests.
C38_RequestCounts ==
    pc \in {"loop", "drain", "done"} =>
        LET posts == args.n_requests \div (args.request_ratio + 1)
        IN  /\ InPipeline("POST") = posts
            /\ InPipeline("FETCH") = posts * args.request_ratio
            /\ InPipeline("POST") + InPipeline("FETCH") <= args.n_requests
            /\ (InPipeline("POST") + InPipeline("FETCH") = args.n_requests)
                  <=> (args.n_requests % (args.request_ratio + 1) = 0)

\* A run on a command line whose request count is not a multiple of
\* request_ratio + 1 ended: fewer requests than asked for were processed.
C38_Witness ==
    /\ pc = "done"
    /\ args.n_requests % (args.request_ratio + 1) # 0
    /\ Len(executing_reqs) < args.n_requests
    /\ Len(executing_reqs) =
           (args.n_requests \div (args.request_ratio + 1)) *
               (args.request_ratio + 1)

\* ------------------------------------------------------------ timestamps
\* C39: within every channel the timestamps of the stored messages strictly
\* increase with the message id: for ids j < k below the write cursor,
\* timestamp(c, j) < timestamp(c, k).
C39_TimestampsIncrease ==
    \A c \in Channels : \A j, k \in MessageIds :
        (j < k /\ k < next_msg[c]) =>
            messages[c][j].timestamp < messages[c][k].timestamp

\* A channel holds two messages by different authors, the second stamped
\* later than the first.
C39_Witness ==
    \E c \in Channels :
        /\ next_msg[c] >= 2
        /\ messages[c][0].author_id # messages[c][1].author_id
        /\ messages[c][0].timestamp < messages[c][1].timestamp

\* ------------------------------------------------------------ written reads
\* C40: every message slot read by a successful execute fetch was written by
\* a committed execute post before the read.  Each (slot, id) the handler
\* visits is a written slot of the followed channel, and every element
\* assigned in the response carries the content of that written slot, never
\* the content of an unwritten one.
C40_ReadsOnlyWritten ==
    [][\A k \in DOMAIN executing_reqs :
          (IsFetch(k) /\ Runs(k) /\ ResultAfter(k).success) =>
             LET d == DataOf(k)
                 visits == FetchReads(d)
                 list == ResultAfter(k).messages
             IN  /\ \A n \in DOMAIN visits :
                       LET c == d.watched_channel_ids[visits[n].slot]
                       IN  /\ visits[n].message_id < next_msg[c]
                           /\ messages[c][visits[n].message_id].written
                 /\ \A p \in DOMAIN list :
                       list[p].state # "uninit" =>
                          LET c == d.watched_channel_ids[list[p].slot]
                              stored == messages[c][list[p].message_id]
                          IN  /\ list[p].state = "read"
                              /\ stored.written
                              /\ list[p].author_id = stored.author_id
                              /\ list[p].timestamp = stored.timestamp
                              /\ list[p].text = stored.text
      ]_vars

\* A fetch succeeded and returned a message although a POST committed on the
\* same channel between its prepare and its execute.
C40_Witness ==
    \E k \in DOMAIN executing_reqs :
        /\ IsFetch(k) /\ Succeeded(k)
        /\ \E i \in Slots :
              /\ ReturnedIdsFor(executing_reqs[k].future.result, i) # {}
              /\ executing_reqs[k].future.result.at_execute[i] >
                     DataOf(k).next_channel_msg_ids[i]

====
